---------------------------- MODULE Spec2Model ----------------------------
(***************************************************************************)
(* A model of the analysis proxy of code-security-analyzer                 *)
(* (src/src/openai-proxy.cjs): the retrying remote call, the recovery      *)
(* parser for the remote service's JSON, and the analyze-security          *)
(* pipeline that drives them.                                              *)
(*                                                                         *)
(* Texts are sequences of atoms.  An atom is one character; a run of       *)
(* letters that the program or the remote service writes as one word (a    *)
(* property name such as "timestamp", a fixed message) may be written as   *)
(* one atom, which no pattern of the code splits.  JSON-significant        *)
(* characters, white space, quotes, slashes and backticks are always       *)
(* atoms of their own.                                                     *)
(***************************************************************************)
EXTENDS Integers, Sequences, FiniteSets, TLC

(***************************************************************************)
(* Characters                                                              *)
(***************************************************************************)
DQ == "\""
SQ == "'"
BS == "\\"
NL == "\n"
SP == " "
\* The backtick (written as a word: the character cannot stand in a string here).
BT == "<backtick>"

Digits == {"0", "1", "2", "3", "4", "5", "6", "7", "8", "9"}

Letters ==
    {"a", "b", "c", "d", "e", "f", "g", "h", "i", "j", "k", "l", "m", "n",
     "o", "p", "q", "r", "s", "t", "u", "v", "w", "x", "y", "z",
     "A", "B", "C", "D", "E", "F", "G", "H", "I", "J", "K", "L", "M", "N",
     "O", "P", "Q", "R", "S", "T", "U", "V", "W", "X", "Y", "Z"}

\* Words written as one atom: property names and values of the reports.
IdentAtoms ==
    {"summary", "timestamp", "title", "risks", "strideCategories", "error",
     "errorMessage", "components", "ok", "T0", "now",
     "Spoofing", "Tampering", "Repudiation", "InformationDisclosure",
     "DenialOfService", "ElevationOfPrivilege"}

\* The class \s of the code's patterns.
IsWs(c) == c \in {SP, NL, "\t", "\r"}

\* The class [a-zA-Z0-9_] of the code's patterns.
IsWordChar(c) == c \in Letters \cup Digits \cup {"_"} \cup IdentAtoms

(***************************************************************************)
(* Scanning helpers                                                        *)
(***************************************************************************)
StartsWithAt(s, i, p) ==
    /\ i + Len(p) - 1 <= Len(s)
    /\ \A k \in 1..Len(p) : s[i + k - 1] = p[k]

\* The member of a one-member set.  The({e(x) : x \in {v}}) is e(v), with v
\* worked out once.
The(S) == CHOOSE x \in S : TRUE

\* The least member of a set of indices (none if the set is empty).
Least(S, none) == IF S = {} THEN none ELSE CHOOSE k \in S : \A m \in S : k <= m

\* The greatest member of a set of indices (none if the set is empty).
Greatest(S, none) == IF S = {} THEN none ELSE CHOOSE k \in S : \A m \in S : m <= k

\* The first index >= i of s that holds no white space (Len(s)+1 if none).
SkipWs(s, i) == Least({k \in i..Len(s) : ~IsWs(s[k])}, Len(s) + 1)

SkipWord(s, i) == Least({k \in i..Len(s) : ~IsWordChar(s[k])}, Len(s) + 1)

SkipDigits(s, i) == Least({k \in i..Len(s) : s[k] \notin Digits}, Len(s) + 1)

\* The first index >= i of s that holds a double quote (Len(s)+1 if none).
NextQuote(s, i) == Least({k \in i..Len(s) : s[k] = DQ}, Len(s) + 1)

\* The last index in lo..hi of s that holds "," or "}" (0 if none).
LastDelim(s, lo, hi) == Greatest({k \in lo..hi : s[k] \in {",", "}"}}, 0)

CountOf(s, c) == Cardinality({k \in 1..Len(s) : s[k] = c})

Repeat(c, n) == [k \in 1..n |-> c]

Sub(s, lo, hi) == IF hi < lo THEN <<>> ELSE SubSeq(s, lo, hi)

(***************************************************************************)
(* JSON values.  Every value is a record [t, s, kids]: t is the kind, s    *)
(* the text of a string, of a number or of a literal (for a member of an   *)
(* object: its name), kids the elements of an array, the members of an     *)
(* object, or the one value of a member.                                   *)
(***************************************************************************)
JStr(s) == [t |-> "str", s |-> s, kids |-> <<>>]
JNum(s) == [t |-> "num", s |-> s, kids |-> <<>>]
JLit(s) == [t |-> "lit", s |-> s, kids |-> <<>>]
JArr(kids) == [t |-> "arr", s |-> <<>>, kids |-> kids]
JObj(members) == [t |-> "obj", s |-> <<>>, kids |-> members]
JPair(k, v) == [t |-> "pair", s |-> k, kids |-> <<v>>]

TrueText == <<"t", "r", "u", "e">>
FalseText == <<"f", "a", "l", "s", "e">>
NullText == <<"n", "u", "l", "l">>
JNull == JLit(NullText)

RECURSIVE KeyIndex(_, _, _)
\* The index of the member of `members` named k, from index i on (0 if none).
KeyIndex(members, k, i) ==
    IF i > Len(members) THEN 0
    ELSE IF members[i].s = k THEN i
    ELSE KeyIndex(members, k, i + 1)

HasKey(v, k) == v.t = "obj" /\ KeyIndex(v.kids, k, 1) # 0

\* obj[k] of JavaScript for an object that has the member.
Get(v, k) == v.kids[KeyIndex(v.kids, k, 1)].kids[1]

\* obj[k] = val of JavaScript: a member of that name keeps its place and
\* takes the value, a new name is added last.
PutMember(members, k, val) ==
    LET at == KeyIndex(members, k, 1)
    IN  IF at = 0 THEN Append(members, JPair(k, val))
        ELSE [members EXCEPT ![at] = JPair(k, val)]

(***************************************************************************)
(* JSON.parse: the strict parse.  Each parser returns [ok, v, i]: whether  *)
(* a value was read at the index given, the value, and the index after it. *)
(***************************************************************************)
ParseFail == [ok |-> FALSE, v |-> JNull, i |-> 0]
ParseDone(v, i) == [ok |-> TRUE, v |-> v, i |-> i]

HexAtoms == Digits \cup {"a", "b", "c", "d", "e", "f", "A", "B", "C", "D", "E", "F"}

\* The character an escape \c stands for (<<>> if \c is no escape).
Unescape(c) ==
    CASE c \in {DQ, BS, "/"} -> <<c>>
      [] c = "n" -> <<NL>>
      [] c = "t" -> <<"\t">>
      [] c = "r" -> <<"\r">>
      [] c = "f" -> <<"\f">>
      [] c = "b" -> <<"<backspace>">>
      [] OTHER -> <<>>

RECURSIVE ParseStringBody(_, _, _)
\* The string whose opening quote is at i - 1.
ParseStringBody(s, i, acc) ==
    IF i > Len(s) THEN ParseFail
    ELSE IF s[i] = DQ THEN ParseDone(JStr(acc), i + 1)
    ELSE IF s[i] \in {NL, "\t", "\r", "\f"} THEN ParseFail
    ELSE IF s[i] = BS THEN
        IF i + 1 > Len(s) THEN ParseFail
        ELSE IF s[i + 1] = "u" THEN
            IF i + 5 <= Len(s) /\ \A k \in 2..5 : s[i + k] \in HexAtoms
            THEN ParseStringBody(s, i + 6,
                     Append(acc, "\\u" \o s[i + 2] \o s[i + 3] \o s[i + 4] \o s[i + 5]))
            ELSE ParseFail
        ELSE IF Unescape(s[i + 1]) = <<>> THEN ParseFail
        ELSE ParseStringBody(s, i + 2, acc \o Unescape(s[i + 1]))
    ELSE ParseStringBody(s, i + 1, Append(acc, s[i]))

\* The index after the number that starts at i (0 if none does).
NumberEnd(s, i) ==
    LET i1 == IF i <= Len(s) /\ s[i] = "-" THEN i + 1 ELSE i
        i2 == IF i1 > Len(s) \/ s[i1] \notin Digits THEN 0
              ELSE IF s[i1] = "0" THEN i1 + 1
              ELSE SkipDigits(s, i1)
        i3 == IF i2 = 0 THEN 0
              ELSE IF i2 <= Len(s) /\ s[i2] = "." THEN
                  IF i2 + 1 <= Len(s) /\ s[i2 + 1] \in Digits
                  THEN SkipDigits(s, i2 + 1) ELSE 0
              ELSE i2
        e1 == IF i3 + 1 <= Len(s) /\ s[i3 + 1] \in {"+", "-"} THEN i3 + 2 ELSE i3 + 1
    IN  IF i3 = 0 THEN 0
        ELSE IF i3 <= Len(s) /\ s[i3] \in {"e", "E"} THEN
            IF e1 <= Len(s) /\ s[e1] \in Digits THEN SkipDigits(s, e1) ELSE 0
        ELSE i3

RECURSIVE ParseValue(_, _)
RECURSIVE ParseMembers(_, _, _)
RECURSIVE ParseElements(_, _, _)

\* The members of an object from the name at i on; acc holds those read.
ParseMembers(s, i, acc) ==
    IF i > Len(s) \/ s[i] # DQ THEN ParseFail
    ELSE The({
        The({
            The({
                The({
                    IF ~v.ok \/ d > Len(s) THEN ParseFail
                    ELSE IF s[d] = "}"
                    THEN ParseDone(JObj(PutMember(acc, k.v.s, v.v)), d + 1)
                    ELSE IF s[d] = ","
                    THEN ParseMembers(s, SkipWs(s, d + 1), PutMember(acc, k.v.s, v.v))
                    ELSE ParseFail
                    : d \in {IF v.ok THEN SkipWs(s, v.i) ELSE 0}})
                : v \in {IF k.ok /\ c <= Len(s) /\ s[c] = ":"
                         THEN ParseValue(s, c + 1) ELSE ParseFail}})
            : c \in {IF k.ok THEN SkipWs(s, k.i) ELSE 0}})
        : k \in {ParseStringBody(s, i + 1, <<>>)}})

\* The elements of an array from the value at i on; acc holds those read.
ParseElements(s, i, acc) ==
    The({
        The({
            IF ~v.ok \/ d > Len(s) THEN ParseFail
            ELSE IF s[d] = "]" THEN ParseDone(JArr(Append(acc, v.v)), d + 1)
            ELSE IF s[d] = "," THEN ParseElements(s, d + 1, Append(acc, v.v))
            ELSE ParseFail
            : d \in {IF v.ok THEN SkipWs(s, v.i) ELSE 0}})
        : v \in {ParseValue(s, i)}})

ParseValue(s, i0) ==
    LET i == SkipWs(s, i0)
        j == SkipWs(s, i + 1)
        n == NumberEnd(s, i)
    IN  IF i > Len(s) THEN ParseFail
        ELSE IF s[i] = "{" THEN
            IF j <= Len(s) /\ s[j] = "}" THEN ParseDone(JObj(<<>>), j + 1)
            ELSE ParseMembers(s, j, <<>>)
        ELSE IF s[i] = "[" THEN
            IF j <= Len(s) /\ s[j] = "]" THEN ParseDone(JArr(<<>>), j + 1)
            ELSE ParseElements(s, i + 1, <<>>)
        ELSE IF s[i] = DQ THEN ParseStringBody(s, i + 1, <<>>)
        ELSE IF StartsWithAt(s, i, TrueText) THEN ParseDone(JLit(TrueText), i + 4)
        ELSE IF StartsWithAt(s, i, FalseText) THEN ParseDone(JLit(FalseText), i + 5)
        ELSE IF StartsWithAt(s, i, NullText) THEN ParseDone(JLit(NullText), i + 4)
        ELSE IF n # 0 THEN ParseDone(JNum(Sub(s, i, n - 1)), n)
        ELSE ParseFail

\* JSON.parse(s): [ok, v]; ok is FALSE where JSON.parse throws a SyntaxError.
JSONParse(s) ==
    The({IF r.ok /\ SkipWs(s, r.i) > Len(s)
         THEN [ok |-> TRUE, v |-> r.v]
         ELSE [ok |-> FALSE, v |-> JNull]
         : r \in {ParseValue(s, 1)}})

(***************************************************************************)
(* JSON.stringify of a parsed value: no white space, members in order.     *)
(***************************************************************************)
RECURSIVE EscapeText(_)
EscapeText(s) ==
    IF s = <<>> THEN <<>>
    ELSE (CASE Head(s) \in {DQ, BS} -> <<BS, Head(s)>>
            [] Head(s) = NL -> <<BS, "n">>
            [] Head(s) = "\t" -> <<BS, "t">>
            [] Head(s) = "\r" -> <<BS, "r">>
            [] Head(s) = "\f" -> <<BS, "f">>
            [] Head(s) = "<backspace>" -> <<BS, "b">>
            [] OTHER -> <<Head(s)>>) \o EscapeText(Tail(s))

RECURSIVE JSONStringify(_)
RECURSIVE StringifyList(_, _)
StringifyList(kids, i) ==
    IF i > Len(kids) THEN <<>>
    ELSE (IF i > 1 THEN <<",">> ELSE <<>>)
         \o JSONStringify(kids[i]) \o StringifyList(kids, i + 1)

JSONStringify(v) ==
    CASE v.t = "str" -> <<DQ>> \o EscapeText(v.s) \o <<DQ>>
      [] v.t = "pair" -> <<DQ>> \o EscapeText(v.s) \o <<DQ, ":">> \o JSONStringify(v.kids[1])
      [] v.t = "arr" -> <<"[">> \o StringifyList(v.kids, 1) \o <<"]">>
      [] v.t = "obj" -> <<"{">> \o StringifyList(v.kids, 1) \o <<"}">>
      [] OTHER -> v.s


(***************************************************************************)
(* cleanAndFixJSON: the replacements of the basic cleanup, one operator    *)
(* per pattern.  Each XxxEnd(s, i) is the index of the last character of   *)
(* the pattern's match that starts at i (0 if none starts there); the      *)
(* replacement takes the leftmost match, rewrites it and goes on after it. *)
(***************************************************************************)
FenceJson == <<BT, BT, BT, "j", "s", "o", "n", NL>>
FenceClose == <<NL, BT, BT, BT>>
FenceBare == <<BT, BT, BT>>

\* /```json\n|\n```|```/
FenceEnd(s, i) ==
    IF StartsWithAt(s, i, FenceJson) THEN i + Len(FenceJson) - 1
    ELSE IF StartsWithAt(s, i, FenceClose) THEN i + Len(FenceClose) - 1
    ELSE IF StartsWithAt(s, i, FenceBare) THEN i + Len(FenceBare) - 1
    ELSE 0

RECURSIVE StripFences(_, _)
\* replace(/```json\n|\n```|```/g, '')
StripFences(s, i) ==
    LET k == Least({x \in i..Len(s) : FenceEnd(s, x) # 0}, Len(s) + 1)
    IN  IF k > Len(s) THEN Sub(s, i, Len(s))
        ELSE Sub(s, i, k - 1) \o StripFences(s, FenceEnd(s, k) + 1)

\* /,(\s*[}\]])/
TrailingCommaEnd(s, i) ==
    LET j == SkipWs(s, i + 1)
    IN  IF s[i] = "," /\ j <= Len(s) /\ s[j] \in {"}", "]"} THEN j ELSE 0

RECURSIVE RemoveTrailingCommas(_, _)
\* replace(/,(\s*[}\]])/g, '$1')
RemoveTrailingCommas(s, i) ==
    LET k == Least({x \in i..Len(s) : TrailingCommaEnd(s, x) # 0}, Len(s) + 1)
        e == TrailingCommaEnd(s, k)
    IN  IF k > Len(s) THEN Sub(s, i, Len(s))
        ELSE Sub(s, i, k - 1) \o Sub(s, k + 1, e) \o RemoveTrailingCommas(s, e + 1)

\* /([{,]\s*)([a-zA-Z0-9_]+)(\s*:)/
PropertyNameEnd(s, i) ==
    LET j == SkipWs(s, i + 1)
        k == SkipWord(s, j)
        c == SkipWs(s, k)
    IN  IF s[i] \in {"{", ","} /\ k > j /\ c <= Len(s) /\ s[c] = ":" THEN c ELSE 0

RECURSIVE QuotePropertyNames(_, _)
\* replace(/([{,]\s*)([a-zA-Z0-9_]+)(\s*:)/g, '$1"$2"$3')
QuotePropertyNames(s, i) ==
    LET k == Least({x \in i..Len(s) : PropertyNameEnd(s, x) # 0}, Len(s) + 1)
        e == PropertyNameEnd(s, k)
        j == SkipWs(s, k + 1)
        w == SkipWord(s, j)
    IN  IF k > Len(s) THEN Sub(s, i, Len(s))
        ELSE Sub(s, i, j - 1) \o <<DQ>> \o Sub(s, j, w - 1) \o <<DQ>>
             \o Sub(s, w, e) \o QuotePropertyNames(s, e + 1)

\* replace(/'/g, '"')
ReplaceSingleQuotes(s) == [i \in 1..Len(s) |-> IF s[i] = SQ THEN DQ ELSE s[i]]

\* replace(/\n/g, ' ')
ReplaceNewlines(s) == [i \in 1..Len(s) |-> IF s[i] = NL THEN SP ELSE s[i]]

RECURSIVE NormalizeWhitespace(_, _)
\* replace(/\s+/g, ' ')
NormalizeWhitespace(s, i) ==
    LET k == Least({x \in i..Len(s) : IsWs(s[x])}, Len(s) + 1)
    IN  IF k > Len(s) THEN Sub(s, i, Len(s))
        ELSE Sub(s, i, k - 1) \o <<SP>> \o NormalizeWhitespace(s, SkipWs(s, k))

\* /:\s*"([^"]*)\s*([,}])/: [^"]* is greedy, so the delimiter matched is
\* the last "," or "}" before the next quote.
UnclosedValueEnd(s, i) ==
    LET j == SkipWs(s, i + 1)
    IN  IF s[i] = ":" /\ j <= Len(s) /\ s[j] = DQ
        THEN LastDelim(s, j + 1, NextQuote(s, j + 1) - 1) ELSE 0

RECURSIVE FixUnclosedValues(_, _)
\* replace(/:\s*"([^"]*)\s*([,}])/g, ':"$1"$2')
FixUnclosedValues(s, i) ==
    LET k == Least({x \in i..Len(s) : UnclosedValueEnd(s, x) # 0}, Len(s) + 1)
        q == UnclosedValueEnd(s, k)
        j == SkipWs(s, k + 1)
    IN  IF k > Len(s) THEN Sub(s, i, Len(s))
        ELSE Sub(s, i, k - 1) \o <<":", DQ>> \o Sub(s, j + 1, q - 1) \o <<DQ, s[q]>>
             \o FixUnclosedValues(s, q + 1)

\* /:\s*"([^"]*)$/
UnclosedAtEnd(s, i) ==
    LET j == SkipWs(s, i + 1)
    IN  s[i] = ":" /\ j <= Len(s) /\ s[j] = DQ /\ NextQuote(s, j + 1) > Len(s)

\* replace(/:\s*"([^"]*)$/g, ':"$1"')
FixUnclosedAtEnd(s) ==
    LET k == Least({x \in 1..Len(s) : UnclosedAtEnd(s, x)}, Len(s) + 1)
        j == SkipWs(s, k + 1)
    IN  IF k > Len(s) THEN s
        ELSE Sub(s, 1, k - 1) \o <<":", DQ>> \o Sub(s, j + 1, Len(s)) \o <<DQ>>

\* The first index >= i of s that holds a line terminator (Len(s)+1 if none).
LineEnd(s, i) == Least({k \in i..Len(s) : s[k] \in {NL, "\r"}}, Len(s) + 1)

RECURSIVE StripLineComments(_, _)
\* replace(/\/\/.*$/gm, '')
StripLineComments(s, i) ==
    LET k == Least({x \in i..Len(s) : StartsWithAt(s, x, <<"/", "/">>)}, Len(s) + 1)
    IN  IF k > Len(s) THEN Sub(s, i, Len(s))
        ELSE Sub(s, i, k - 1) \o StripLineComments(s, LineEnd(s, k))

\* /\/\*[\s\S]*?\*\//: the comment that opens at i runs to the first "*/"
\* after its "/*".
BlockCommentEnd(s, i) ==
    LET e == Least({x \in (i + 2)..Len(s) : StartsWithAt(s, x, <<"*", "/">>)}, Len(s) + 1)
    IN  IF StartsWithAt(s, i, <<"/", "*">>) /\ e <= Len(s) THEN e + 1 ELSE 0

RECURSIVE StripBlockComments(_, _)
\* replace(/\/\*[\s\S]*?\*\//g, '')
StripBlockComments(s, i) ==
    LET k == Least({x \in i..Len(s) : BlockCommentEnd(s, x) # 0}, Len(s) + 1)
    IN  IF k > Len(s) THEN Sub(s, i, Len(s))
        ELSE Sub(s, i, k - 1) \o StripBlockComments(s, BlockCommentEnd(s, k) + 1)

\* Lines 252-264: the fences are stripped, then the nine replacements run
\* in the order written.
BasicCleanup(jsonString) ==
    LET r0 == StripFences(jsonString, 1)
        r1 == RemoveTrailingCommas(r0, 1)
        r2 == QuotePropertyNames(r1, 1)
        r3 == ReplaceSingleQuotes(r2)
        r4 == ReplaceNewlines(r3)
        r5 == NormalizeWhitespace(r4, 1)
        r6 == FixUnclosedValues(r5, 1)
        r7 == FixUnclosedAtEnd(r6)
        r8 == StripLineComments(r7, 1)
    IN  StripBlockComments(r8, 1)

(***************************************************************************)
(* The aggressive fixes.                                                   *)
(***************************************************************************)
\* match(/"\s*:\s*"[^"]*[^"]$/): some `" : "` whose second quote is the
\* last quote of the text and not its last character.
HasUnclosedValueAtEnd(s) ==
    \E i \in 1..Len(s) :
        LET c == SkipWs(s, i + 1)
            j == SkipWs(s, c + 1)
        IN  /\ s[i] = DQ
            /\ c <= Len(s) /\ s[c] = ":"
            /\ j < Len(s) /\ s[j] = DQ
            /\ NextQuote(s, j + 1) > Len(s)

\* /("\s*:\s*"[^"]*[^"])(\s*[,}])/: the delimiter matched is the last ","
\* or "}" before the next quote that leaves the value a character.
StringValueEnd(s, i) ==
    LET c == SkipWs(s, i + 1)
        j == SkipWs(s, c + 1)
    IN  IF s[i] = DQ /\ c <= Len(s) /\ s[c] = ":" /\ j <= Len(s) /\ s[j] = DQ
        THEN LastDelim(s, j + 2, NextQuote(s, j + 1) - 1) ELSE 0

RECURSIVE CloseStringValues(_, _)
\* replace(/("\s*:\s*"[^"]*[^"])(\s*[,}])/g, '$1"$2')
CloseStringValues(s, i) ==
    LET k == Least({x \in i..Len(s) : StringValueEnd(s, x) # 0}, Len(s) + 1)
        q == StringValueEnd(s, k)
    IN  IF k > Len(s) THEN Sub(s, i, Len(s))
        ELSE Sub(s, i, q - 1) \o <<DQ, s[q]>> \o CloseStringValues(s, q + 1)

RECURSIVE EscapeInnerQuotes(_, _)
\* replace(/"([^"]*)"([^"]*)"([^"]*)"/g, '"' + p1 + '\\"' + p2 + '\\"' + p3 + '"'):
\* of each four quotes in a row the two inner ones are escaped.
EscapeInnerQuotes(s, i) ==
    LET q1 == NextQuote(s, i)
        q2 == NextQuote(s, q1 + 1)
        q3 == NextQuote(s, q2 + 1)
        q4 == NextQuote(s, q3 + 1)
    IN  IF q4 <= Len(s)
        THEN Sub(s, i, q2 - 1) \o <<BS, DQ>> \o Sub(s, q2 + 1, q3 - 1)
             \o <<BS, DQ>> \o Sub(s, q3 + 1, q4) \o EscapeInnerQuotes(s, q4 + 1)
        ELSE Sub(s, i, Len(s))

\* Lines 285-296: the closers the text lacks, braces before brackets.
BalanceClosers(s) ==
    s \o Repeat("}", CountOf(s, "{") - CountOf(s, "}"))
      \o Repeat("]", CountOf(s, "[") - CountOf(s, "]"))

\* Lines 274-296.
AggressiveFix(cleanedJSON) ==
    LET a == IF HasUnclosedValueAtEnd(cleanedJSON)
             THEN CloseStringValues(cleanedJSON, 1) ELSE cleanedJSON
    IN  BalanceClosers(EscapeInnerQuotes(a, 1))

(***************************************************************************)
(* cleanAndFixJSON.  The result is [threw, stage, value]: whether the      *)
(* function raised, the stage that produced the value, and the value.      *)
(***************************************************************************)
Returned(stage, value) == [threw |-> FALSE, stage |-> stage, value |-> value]
Raised == [threw |-> TRUE, stage |-> "none", value |-> JNull]

\* new Date().toISOString(): the clock's text, no text of any response.
NowStamp == JStr(<<"now">>)

\* Lines 306-311: the last resort; errorMessage is the engine's message.
DegradedRecord ==
    JObj(<<JPair(<<"error">>, JStr(<<"JSON parsing failed">>)),
           JPair(<<"errorMessage">>, JStr(<<"Unexpected token in JSON">>)),
           JPair(<<"timestamp">>, NowStamp),
           JPair(<<"summary">>,
                 JStr(<<"Error in analysis output format. Please check server logs.">>))>>)

LastResortRethrows(fixed) ==
    The({IF final.ok THEN Returned("aggressive", final.v) ELSE Raised
         : final \in {JSONParse(fixed)}})

\* Lines 299-312: the final attempt and its catch.
LastResort(fixed) ==
    The({IF final.ok THEN Returned("aggressive", final.v)
         ELSE Returned("degraded", DegradedRecord)
         : final \in {JSONParse(fixed)}})

\* Lines 251-313: the catch of the direct parse.
CleanupAndRetry(jsonString) ==
    The({
        The({IF basic.ok THEN Returned("cleanup", basic.v)
             ELSE LastResort(AggressiveFix(cleanedJSON))
             : basic \in {JSONParse(cleanedJSON)}})
        : cleanedJSON \in {BasicCleanup(jsonString)}})

cleanAndFixJSONCleansFirst(jsonString) == CleanupAndRetry(jsonString)

\* Lines 244-315.
cleanAndFixJSON(jsonString) ==
    The({IF direct.ok THEN Returned("direct", direct.v)
         ELSE CleanupAndRetry(jsonString)
         : direct \in {JSONParse(jsonString)}})


(***************************************************************************)
(* Texts given to cleanAndFixJSON: renderings of payloads, clean, noisy    *)
(* and damaged, and short arbitrary texts.                                 *)
(***************************************************************************)
Quoted(s) == <<DQ>> \o s \o <<DQ>>

StrideTitles ==
    <<"Spoofing", "Tampering", "Repudiation", "InformationDisclosure",
      "DenialOfService", "ElevationOfPrivilege">>

StrideCategory(title) ==
    JObj(<<JPair(<<"title">>, JStr(<<title>>)), JPair(<<"risks">>, JArr(<<>>))>>)

\* A report of the shape the prompts ask for (lines 376-404).
GoodReport ==
    JObj(<<JPair(<<"summary">>, JStr(<<"ok">>)),
           JPair(<<"strideCategories">>,
                 JArr([k \in 1..Len(StrideTitles) |-> StrideCategory(StrideTitles[k])])),
           JPair(<<"timestamp">>, JStr(<<"T0">>))>>)

PlainPayloads ==
    {JObj(<<JPair(<<"a">>, JNum(<<"1">>))>>),
     JObj(<<JPair(<<"a">>, JStr(<<"b">>))>>),
     JObj(<<JPair(<<"a">>, JArr(<<JNum(<<"1">>), JStr(<<"b">>)>>)),
            JPair(<<"c">>, JObj(<<JPair(<<"d">>, JNull)>>))>>),
     JArr(<<JNum(<<"1">>), JStr(<<"b">>)>>),
     JObj(<<>>), JArr(<<>>), JNull, JLit(TrueText), JStr(<<"a">>), JNum(<<"1">>),
     GoodReport}

\* Payloads whose strings hold an apostrophe, a URL's "//", a comma
\* followed by a word and a colon, a comma, a brace.
TrickyPayloads ==
    {JObj(<<JPair(<<"a">>, JStr(<<"i", "t", SQ, "s">>))>>),
     JObj(<<JPair(<<"u">>, JStr(<<"h", ":", "/", "/", "x">>))>>),
     JObj(<<JPair(<<"a">>, JStr(<<"x", ",", SP, "b", ":", SP, "c">>))>>),
     JObj(<<JPair(<<"a">>, JStr(<<"b", ",", "c">>))>>),
     JObj(<<JPair(<<"a">>, JStr(<<"}">>))>>),
     JObj(<<JPair(<<"a">>, JStr(<<"x", SP, SP, "y">>))>>)}

Payloads == PlainPayloads \cup TrickyPayloads

RECURSIVE NoisyStringify(_)
RECURSIVE NoisyList(_, _)
NoisyList(kids, i) ==
    IF i > Len(kids) THEN <<>>
    ELSE NoisyStringify(kids[i]) \o <<",">>
         \o (IF i < Len(kids) THEN <<NL, SP>> ELSE <<NL>>) \o NoisyList(kids, i + 1)

\* The text of v with a comma after the last element of every array and
\* the last member of every object, one element to the line.
NoisyStringify(v) ==
    CASE v.t = "pair" -> Quoted(EscapeText(v.s)) \o <<":", SP>> \o NoisyStringify(v.kids[1])
      [] v.t = "arr" /\ v.kids # <<>> -> <<"[", NL, SP>> \o NoisyList(v.kids, 1) \o <<"]">>
      [] v.t = "obj" /\ v.kids # <<>> -> <<"{", NL, SP>> \o NoisyList(v.kids, 1) \o <<"}">>
      [] OTHER -> JSONStringify(v)

\* The payload in Markdown code fences, with trailing commas.
FencedNoisy(v) == FenceJson \o NoisyStringify(v) \o FenceClose

\* Damage to a valid text: the last character lost, single quotes for
\* double, a line comment or a fence added.
Damaged(t) ==
    {Sub(t, 1, Len(t) - 1),
     [i \in 1..Len(t) |-> IF t[i] = DQ THEN SQ ELSE t[i]],
     t \o <<SP, "/", "/", "c">>,
     <<"/", "*", "c", "*", "/">> \o t,
     FenceBare \o <<NL>> \o t \o FenceClose,
     <<"x", ":", SP>> \o t}

Fragments ==
    {<<"{">>, <<"}">>, <<"[">>, <<",">>, <<":">>, <<DQ>>, <<"a">>, <<"1">>, <<SQ>>, <<SP>>}

MaxFragments == 3

RECURSIVE FragmentTexts(_)
\* The texts of at most n fragments.
FragmentTexts(n) ==
    IF n = 0 THEN {<<>>}
    ELSE LET shorter == FragmentTexts(n - 1)
         IN  shorter \cup {t \o f : t \in shorter, f \in Fragments}

\* [text, kind, payload]: kind says how the text was made from the payload.
RecoverInput(text, kind, v) == [text |-> text, kind |-> kind, payload |-> v]

RecoverInputs ==
    {RecoverInput(JSONStringify(v), "valid", v) : v \in Payloads}
    \cup {RecoverInput(FencedNoisy(v), "noisy", v) : v \in Payloads}
    \cup UNION {{RecoverInput(t, "damaged", v) : t \in Damaged(JSONStringify(v))} : v \in Payloads}
    \cup {RecoverInput(t, "arbitrary", JNull) : t \in FragmentTexts(MaxFragments)}


(***************************************************************************)
(* callOpenAIWithRetry: the wait after a rate-limit rejection.  Times are  *)
(* in milliseconds.  The details of a 429 error are the text its message   *)
(* holds between "try again in " and the "s" that follows (<<>> when the   *)
(* message has no such phrase).                                            *)
(***************************************************************************)
RECURSIVE DigitsValue(_)
\* The number a text of digits writes.
DigitsValue(d) ==
    IF d = <<>> THEN 0
    ELSE 10 * DigitsValue(Sub(d, 1, Len(d) - 1))
         + (CHOOSE n \in 0..9 : ToString(n) = d[Len(d)])

RECURSIVE Pow10(_)
Pow10(n) == IF n = 0 THEN 1 ELSE 10 * Pow10(n - 1)

CeilDiv(a, b) == (a + b - 1) \div b

\* Whether (\d+\.\d+) followed by "s" matches the text: digits, a point, digits.
IsDecimalHint(tok) ==
    LET p == SkipDigits(tok, 1)
    IN  /\ p > 1 /\ p < Len(tok) /\ tok[p] = "."
        /\ SkipDigits(tok, p + 1) > Len(tok)

\* Math.ceil(parseFloat(match[1]) * 1000)
HintCeilMs(tok) ==
    LET p == SkipDigits(tok, 1)
        frac == Sub(tok, p + 1, Len(tok))
    IN  DigitsValue(Sub(tok, 1, p - 1)) * 1000
        + CeilDiv(DigitsValue(frac) * 1000, Pow10(Len(frac)))

DefaultWaitMs == 30000
HintBufferMs == 1000
BackoffStepMs == 5000

\* Lines 38-45: waitTime.
HintWait(details) ==
    IF IsDecimalHint(details) THEN HintCeilMs(details) + HintBufferMs
    ELSE DefaultWaitMs

\* Line 49: actualWaitTime.
ActualWaitTime(details, retries, jitter) ==
    HintWait(details) + (retries * BackoffStepMs) + jitter

RateLimitStatus == 429

IsRateLimitAnyServerError(err) == err.status >= RateLimitStatus

\* Line 36: err.response && err.response.status === 429 (status 0: the
\* error carries no response).
IsRateLimit(err) == err.status = RateLimitStatus

LoopContinuesOffByOne(retries, maxRetries) == retries < maxRetries

\* Line 21: the loop test.
LoopContinues(retries, maxRetries) == retries <= maxRetries

(***************************************************************************)
(* State                                                                   *)
(***************************************************************************)
\* The requests the server may be serving at once.
Reqs == {1, 2}

VARIABLES
    recoverIn,      \* the text given to cleanAndFixJSON, and how it was made
    recovered,      \* what cleanAndFixJSON gave back: [done, threw, stage, value]
    call,           \* per request: its invocation of callOpenAIWithRetry
    run,            \* per request: its pass through the analyze-security handler
    finalResult,    \* the undeclared (global) finalResult of line 595
    troubled,       \* how many calls of the run the remote service has rate-limited
    segIn,          \* the text given to componentBasedChunking
    segOut,         \* what componentBasedChunking gave back: [done, chunks]
    rankIn,         \* what findRelevantChunks is called with, and what the embeddings do
    rankOut,        \* what findRelevantChunks gave back: [done, threw, chunks]
    dash            \* the Dashboard component: its state and its analyses in flight

recoverVars == <<recoverIn, recovered>>
pipelineVars == <<run, finalResult, troubled>>
segmentVars == <<segIn, segOut>>
\* The variables of the functions modelled on their own.
rankVars == <<rankIn, rankOut>>
pureVars == <<recoverVars, segmentVars, rankVars, dash>>
vars == <<recoverIn, recovered, call, run, finalResult, troubled, segIn, segOut,
          rankIn, rankOut, dash>>

NotRecovered == [done |-> FALSE, threw |-> FALSE, stage |-> "none", value |-> JNull]

RecoverIdle ==
    /\ recoverIn = RecoverInput(<<>>, "none", JNull)
    /\ recovered = NotRecovered

NotSegmented == [done |-> FALSE, chunks |-> <<>>]

SegmentIdle ==
    /\ segIn = <<>>
    /\ segOut = NotSegmented

NotAsked == [query |-> <<>>, chunks |-> <<>>, topK |-> 0, failing |-> "none"]

NotRanked == [done |-> FALSE, threw |-> FALSE, chunks |-> <<>>]

RankIdle ==
    /\ rankIn = NotAsked
    /\ rankOut = NotRanked

\* The analyses the Dashboard may have in flight at once.
Flights == {1, 2}

Absent == [has |-> FALSE, value |-> <<>>]
Present(v) == [has |-> TRUE, value |-> v]

\* dashboard.tsx lines 42-51: the state after the first render, no analysis
\* started; cancelled tells that Cancel was pressed since the last start.
FreshDashboard ==
    [files |-> 0, currentStage |-> "idle", progress |-> 0, error |-> Absent,
     securityReport |-> Absent, rawReportText |-> Absent, activeTab |-> "upload",
     processedChunks |-> 0, totalChunks |-> 0,
     flight |-> [f \in Flights |-> "none"], cancelled |-> FALSE]

DashIdle == dash = FreshDashboard

PureIdle == RecoverIdle /\ SegmentIdle /\ RankIdle /\ DashIdle

(***************************************************************************)
(* callOpenAIWithRetry (lines 18-63).  An error of the request is          *)
(* [status, details]: status 0 stands for an error with no response (a     *)
(* network error).  The outcome is what the function returned or threw.    *)
(***************************************************************************)
NoError == [status |-> -1, details |-> <<>>]
NoOutcome == [kind |-> "none", status |-> -1, details |-> <<>>, content |-> <<>>]

IdleCall ==
    [state |-> "idle", maxRetries |-> 0, retries |-> 0, attempts |-> 0,
     rejections |-> 0, faults |-> 0, sleeps |-> 0, slept |-> 0,
     error |-> NoError, outcome |-> NoOutcome]

\* Line 34: return response.
ResponseOutcome(content) ==
    [kind |-> "response", status |-> 200, details |-> <<>>, content |-> content]

\* Line 56: throw err.
ErrorOutcome(err) ==
    [kind |-> "error", status |-> err.status, details |-> err.details, content |-> <<>>]

\* Line 62: throw new Error(`Failed after ${maxRetries} retries`).
ExhaustedOutcome(maxRetries) ==
    [kind |-> "exhausted", status |-> 0,
     details |-> <<"Failed after ", ToString(maxRetries), " retries">>, content |-> <<>>]

\* Lines 21-33 and 61-62: the loop test, then the request or the give-up.
AfterLoopTest(c) ==
    IF LoopContinues(c.retries, c.maxRetries)
    THEN [c EXCEPT !.state = "awaiting", !.attempts = @ + 1]
    ELSE [c EXCEPT !.state = "thrown", !.outcome = ExhaustedOutcome(c.maxRetries)]

DefaultMaxRetries == 5

\* Lines 18-21: the call begins.
StartCall(maxRetries) == AfterLoopTest([IdleCall EXCEPT !.maxRetries = maxRetries])

\* Lines 23-34: the request succeeds.
AxiosResponds(r, content) ==
    /\ call[r].state = "awaiting"
    /\ call' = [call EXCEPT ![r].state = "returned",
                            ![r].outcome = ResponseOutcome(content)]

\* The last rate-limit rejection allowed answered by giving up at once,
\* with no sleep.
AxiosRejectsGivesUpAtOnce(r, err, jitter) ==
    /\ call[r].state = "awaiting"
    /\ LET c == [call[r] EXCEPT
                    !.error = err,
                    !.rejections = @ + (IF err.status = RateLimitStatus THEN 1 ELSE 0),
                    !.faults = @ + (IF err.status = RateLimitStatus THEN 0 ELSE 1)]
       IN  call' = [call EXCEPT ![r] =
                IF IsRateLimit(err) /\ c.retries = c.maxRetries
                THEN [c EXCEPT !.state = "thrown",
                               !.outcome = ExhaustedOutcome(c.maxRetries)]
                ELSE IF IsRateLimit(err)
                THEN [c EXCEPT !.state = "sleeping",
                               !.slept = ActualWaitTime(err.details, c.retries, jitter)]
                ELSE [c EXCEPT !.state = "thrown", !.outcome = ErrorOutcome(err)]]

\* Lines 35-57: the request fails with err; jitter is Math.random() * 1000.
AxiosRejects(r, err, jitter) ==
    /\ call[r].state = "awaiting"
    /\ LET c == [call[r] EXCEPT
                    !.error = err,
                    !.rejections = @ + (IF err.status = RateLimitStatus THEN 1 ELSE 0),
                    !.faults = @ + (IF err.status = RateLimitStatus THEN 0 ELSE 1)]
       IN  call' = [call EXCEPT ![r] =
                IF IsRateLimit(err)
                THEN [c EXCEPT !.state = "sleeping",
                               !.slept = ActualWaitTime(err.details, c.retries, jitter)]
                ELSE [c EXCEPT !.state = "thrown", !.outcome = ErrorOutcome(err)]]

\* Lines 52-53 and the loop test that follows: the sleep ends.
SleepDone(r) ==
    /\ call[r].state = "sleeping"
    /\ call' = [call EXCEPT ![r] =
            AfterLoopTest([call[r] EXCEPT !.retries = @ + 1, !.sleeps = @ + 1])]

(***************************************************************************)
(* What the remote service may answer.                                     *)
(***************************************************************************)
NoHint == <<>>

\* Hinted waits: fractional seconds and whole seconds, below and above the
\* default of 30 s.
Hints ==
    {NoHint,
     <<"0", ".", "5">>, <<"2", "0", ".", "2", "5">>, <<"4", "5", ".", "5">>,
     <<"1", ".", "0", "0", "0", "5">>,
     <<"2", "0">>, <<"3", "0">>, <<"4", "5">>}

RateLimitError(hint) == [status |-> RateLimitStatus, details |-> hint]

Faults ==
    {[status |-> 401, details |-> <<"invalid_api_key">>],
     [status |-> 400, details |-> <<"invalid_request_error">>],
     [status |-> 500, details |-> <<"server_error">>],
     [status |-> 0, details |-> <<"ECONNRESET">>]}

\* Values of Math.random() * 1000, which lies in [0, 1000).
Jitters == {0, 500, 999}

(***************************************************************************)
(* callOpenAIWithRetry on its own: one call, any maxRetries.               *)
(***************************************************************************)
MaxRetriesBound == 3

\* No reply sent yet.
NotSent ==
    [sent |-> FALSE, status |-> 0, result |-> <<>>, processedChunks |-> 0,
     totalChunks |-> 0, error |-> <<>>]

IdleRun ==
    [pc |-> "idle", chunks |-> 0, i |-> 0, chunkResults |-> <<>>, batches |-> <<>>,
     batchResults |-> <<>>, callLog |-> <<>>, delays |-> 0, delay |-> 0,
     res |-> NotSent]

PipelineIdle ==
    /\ run = [r \in Reqs |-> IdleRun]
    /\ finalResult = JNull
    /\ troubled = 0

InitRetry ==
    /\ \E m \in 0..MaxRetriesBound :
          call = [r \in Reqs |-> IF r = 1 THEN StartCall(m) ELSE IdleCall]
    /\ PureIdle
    /\ PipelineIdle

NextRetry ==
    \/ /\ \E content \in {<<"o", "k">>} : AxiosResponds(1, content)
       /\ UNCHANGED <<pureVars, pipelineVars>>
    \/ /\ \E hint \in Hints, jitter \in Jitters :
              AxiosRejects(1, RateLimitError(hint), jitter)
       /\ UNCHANGED <<pureVars, pipelineVars>>
    \/ /\ \E err \in Faults : AxiosRejects(1, err, 0)
       /\ UNCHANGED <<pureVars, pipelineVars>>
    \/ /\ SleepDone(1)
       /\ UNCHANGED <<pureVars, pipelineVars>>

SpecRetry == InitRetry /\ [][NextRetry]_vars

(***************************************************************************)
(* Properties of callOpenAIWithRetry, checked under SpecRetry.             *)
(***************************************************************************)
\* The invocation SpecRetry follows.
TheCall == call[1]

\* Every attempt made so far was answered with a 429.
AllAttemptsRateLimited == TheCall.faults = 0 /\ TheCall.outcome.kind # "response"

\* C1: when every attempt is answered with a 429, the client makes exactly
\* maxRetries+1 attempts and then fails with the exhausted-retries error
\* ("Failed after N retries"); no invocation ever makes more than
\* maxRetries+1 attempts.
C1_AllRateLimitedExhausts ==
    /\ TheCall.attempts <= TheCall.maxRetries + 1
    /\ (AllAttemptsRateLimited /\ TheCall.state = "thrown") =>
          /\ TheCall.outcome = ExhaustedOutcome(TheCall.maxRetries)
          /\ TheCall.attempts = TheCall.maxRetries + 1
          /\ TheCall.rejections = TheCall.attempts
    /\ (AllAttemptsRateLimited /\ TheCall.rejections = TheCall.maxRetries + 1) =>
          TheCall.state \in {"sleeping", "thrown"}

C1_Witness ==
    /\ TheCall.maxRetries = MaxRetriesBound
    /\ TheCall.state = "thrown"
    /\ TheCall.outcome.kind = "exhausted"
    /\ TheCall.attempts = MaxRetriesBound + 1
    /\ TheCall.rejections = MaxRetriesBound + 1

\* The hinted duration a text of digits (with or without a fraction) writes,
\* in microseconds.
HintMicros(tok) ==
    LET p == SkipDigits(tok, 1)
        frac == Sub(tok, p + 1, Len(tok))
    IN  DigitsValue(Sub(tok, 1, p - 1)) * Pow10(6)
        + (DigitsValue(frac) * Pow10(6)) \div Pow10(Len(frac))

\* C2: after a 429 that carries a wait hint of h seconds, at least h + 1
\* seconds are slept before the next attempt, for whole-number and
\* fractional hints alike.
C2_SleepCoversHintPlusBuffer ==
    (TheCall.state = "sleeping" /\ TheCall.error.details # NoHint) =>
        TheCall.slept * 1000 >= HintMicros(TheCall.error.details) + Pow10(6)

\* C2 holds of the hints that carry a fraction: the only ones line 41 reads.
C2_FractionalHintCovered ==
    (TheCall.state = "sleeping" /\ IsDecimalHint(TheCall.error.details)) =>
        TheCall.slept * 1000 >= HintMicros(TheCall.error.details) + Pow10(6)

\* C3: an error that is not a 429 ends the invocation at once, whatever the
\* retry count: it is the last attempt, no sleep follows it, and what is
\* thrown is that error, status and details.
C3_FaultFailsImmediately ==
    TheCall.faults > 0 =>
        /\ TheCall.state = "thrown"
        /\ TheCall.faults = 1
        /\ TheCall.outcome = ErrorOutcome(TheCall.error)
        /\ TheCall.error \in Faults
        /\ TheCall.attempts = TheCall.rejections + 1
        /\ TheCall.sleeps = TheCall.rejections
        /\ TheCall.retries = TheCall.rejections

\* A fault met after two rate-limit retries, with further retries allowed.
C3_Witness ==
    /\ TheCall.faults = 1
    /\ TheCall.state = "thrown"
    /\ TheCall.error.status = 500
    /\ TheCall.retries = 2
    /\ TheCall.maxRetries = MaxRetriesBound

\* C4 as stated: the invocation raises the exhausted-retries error after
\* exactly maxRetries rate-limit rejections, and an invocation rejected
\* maxRetries times cannot still return a response.
C4_ExhaustedAfterMaxRetriesRejections ==
    /\ TheCall.outcome.kind = "exhausted" => TheCall.rejections = TheCall.maxRetries
    /\ TheCall.outcome.kind = "response" => TheCall.rejections < TheCall.maxRetries

\* C4 as the code has it: the exhausted-retries error follows exactly
\* maxRetries+1 rate-limit rejections, each slept out; an invocation
\* rejected maxRetries times makes one more attempt, which may succeed.
C4_ExhaustedAfterMaxRetriesPlusOneRejections ==
    /\ TheCall.outcome.kind = "exhausted" =>
          /\ TheCall.rejections = TheCall.maxRetries + 1
          /\ TheCall.sleeps = TheCall.maxRetries + 1
    /\ TheCall.outcome.kind = "response" => TheCall.rejections <= TheCall.maxRetries
    /\ (TheCall.rejections = TheCall.maxRetries /\ TheCall.faults = 0
            /\ TheCall.sleeps = TheCall.rejections) =>
          TheCall.state \in {"awaiting", "returned"}

\* A response returned after maxRetries rate-limit rejections.
C4_Witness ==
    /\ TheCall.outcome.kind = "response"
    /\ TheCall.maxRetries = MaxRetriesBound
    /\ TheCall.rejections = TheCall.maxRetries

(***************************************************************************)
(* The recovery parser on its own: one call of cleanAndFixJSON.            *)
(***************************************************************************)
InitRecover ==
    /\ recoverIn \in RecoverInputs
    /\ recovered = NotRecovered
    /\ call = [r \in Reqs |-> IdleCall]
    /\ PipelineIdle
    /\ SegmentIdle
    /\ RankIdle
    /\ DashIdle

RecoverCall ==
    /\ ~recovered.done
    /\ \E r \in {cleanAndFixJSON(recoverIn.text)} :
           recovered' = [done |-> TRUE, threw |-> r.threw, stage |-> r.stage,
                         value |-> r.value]
    /\ UNCHANGED <<recoverIn, call, pipelineVars, segmentVars, rankVars, dash>>

NextRecover == RecoverCall

SpecRecover == InitRecover /\ [][NextRecover]_vars

(***************************************************************************)
(* Properties of cleanAndFixJSON, checked under SpecRecover.               *)
(***************************************************************************)
\* No stage of cleanAndFixJSON finds the text parseable.
Unparseable(text) ==
    /\ ~JSONParse(text).ok
    /\ ~JSONParse(BasicCleanup(text)).ok
    /\ ~JSONParse(AggressiveFix(BasicCleanup(text))).ok

IsText(v) == v.t = "str" /\ v.s # <<>>

\* C5: cleanAndFixJSON never throws; a text no repair stage makes parseable
\* yields a degraded record holding an error marker, the failure message, a
\* timestamp and a summary note.
C5_NeverThrowsDegradedRecord ==
    recovered.done =>
        /\ ~recovered.threw
        /\ Unparseable(recoverIn.text) =>
              /\ recovered.stage = "degraded"
              /\ recovered.value.t = "obj"
              /\ \A k \in {"error", "errorMessage", "timestamp", "summary"} :
                    /\ HasKey(recovered.value, <<k>>)
                    /\ IsText(Get(recovered.value, <<k>>))
        /\ recovered.stage = "degraded" => Unparseable(recoverIn.text)

C5_Witness ==
    /\ recovered.done
    /\ recoverIn.kind = "arbitrary"
    /\ Unparseable(recoverIn.text)
    /\ recovered.stage = "degraded"

\* C6: a text that is valid JSON comes back as the value of its strict
\* parse, by the first parse alone: no repair step touches it.
C6_ValidTextParsedDirectly ==
    (recovered.done /\ JSONParse(recoverIn.text).ok) =>
        /\ ~recovered.threw
        /\ recovered.stage = "direct"
        /\ recovered.value = JSONParse(recoverIn.text).v
        /\ recoverIn.kind = "valid" => recovered.value = recoverIn.payload

\* A valid payload the repair steps would have damaged: a string value
\* holding an apostrophe.
C6_Witness ==
    /\ recovered.done
    /\ recoverIn.kind = "valid"
    /\ recoverIn.payload \in TrickyPayloads
    /\ \E k \in 1..Len(recoverIn.text) : recoverIn.text[k] = SQ
    /\ recovered.value = recoverIn.payload

\* C7: a valid payload wrapped in code fences and given trailing commas is
\* recovered to the payload itself, whatever its string values hold.
C7_FencedTrailingCommasRecovered ==
    (recovered.done /\ recoverIn.kind = "noisy") =>
        /\ ~recovered.threw
        /\ recovered.value = recoverIn.payload

(***************************************************************************)
(* POST /api/analyze-security (lines 345-651).  A run is one request's     *)
(* pass through the handler; pc names the await it is suspended at.        *)
(***************************************************************************)
Min(a, b) == IF a < b THEN a ELSE b

batchSize == 10

BatchesDropRemainder(results) ==
    [b \in 1..(Len(results) \div batchSize) |->
        Sub(results, (b - 1) * batchSize + 1, b * batchSize)]

\* Lines 445-451: the partial reports cut into slices of batchSize.
Batches(results) ==
    [b \in 1..CeilDiv(Len(results), batchSize) |->
        Sub(results, (b - 1) * batchSize + 1, Min(b * batchSize, Len(results)))]

\* Lines 426-431: the cleanup of the catch branch.
FallbackClean(content) ==
    ReplaceSingleQuotes(
        QuotePropertyNames(RemoveTrailingCommas(StripFences(content, 1), 1), 1))

\* The content stored as it came, unrecovered.
StoredRaw(content) == content

\* Lines 419-432 and 507-520: what a response's content is stored as.
Stored(content) ==
    The({IF parsedContent.threw THEN FallbackClean(content)
         ELSE JSONStringify(parsedContent.value)
         : parsedContent \in {cleanAndFixJSON(content)}})

\* Whether a number's text writes zero.
IsZero(s) ==
    LET e == Least({k \in 1..Len(s) : s[k] \in {"e", "E"}}, Len(s) + 1)
    IN  \A k \in 1..(e - 1) : s[k] \notin (Digits \ {"0"})

\* JavaScript truthiness of a JSON value.
Truthy(v) ==
    CASE v.t = "str" -> v.s # <<>>
      [] v.t = "num" -> ~IsZero(v.s)
      [] v.t = "lit" -> v.s = TrueText
      [] OTHER -> TRUE

\* Lines 597-599 and 621-623, as JSON.stringify will see the value: a
\* record gains a timestamp unless it has a truthy one; a property set on
\* an array, a string, a number or a boolean is not serialized.
WithTimestamp(v) ==
    IF v.t = "obj" /\ ~(HasKey(v, <<"timestamp">>) /\ Truthy(Get(v, <<"timestamp">>)))
    THEN JObj(PutMember(v.kids, <<"timestamp">>, NowStamp))
    ELSE v

\* The try blocks of lines 593-613 and 618-637: cleanAndFixJSON, then the
\* timestamp; reading .timestamp of null throws.
Finish(text) ==
    The({IF parsed.threw THEN [assigned |-> FALSE, failed |-> TRUE, value |-> JNull]
         ELSE IF parsed.value = JNull
              THEN [assigned |-> TRUE, failed |-> TRUE, value |-> JNull]
         ELSE [assigned |-> TRUE, failed |-> FALSE,
               value |-> WithTimestamp(parsed.value)]
         : parsed \in {cleanAndFixJSON(text)}})

\* Lines 600-612 and 624-636: the reply built from a report text.
ReportReply(text, processed, total) ==
    The({[sent |-> TRUE, status |-> 200,
          result |-> IF f.failed THEN text ELSE JSONStringify(f.value),
          processedChunks |-> processed, totalChunks |-> total,
          error |-> IF f.failed THEN <<"JSON parsing failed">> ELSE <<>>]
         : f \in {Finish(text)}})

\* Line 640.
NoChunksReply ==
    [sent |-> TRUE, status |-> 400, result |-> <<>>, processedChunks |-> 0,
     totalChunks |-> 0, error |-> <<"No chunks could be processed">>]

\* Every thrown error answered as an internal error.
FailureReplyAlways500(outcome) ==
    [sent |-> TRUE, status |-> 500, result |-> <<>>, processedChunks |-> 0,
     totalChunks |-> 0, error |-> outcome.details]

\* Lines 642-650: the reply to an error thrown by a remote call.
FailureReply(outcome) ==
    [sent |-> TRUE, status |-> IF outcome.status # 0 THEN outcome.status ELSE 500,
     result |-> <<>>, processedChunks |-> 0, totalChunks |-> 0,
     error |-> outcome.details]

Logged(kind, size) == [kind |-> kind, size |-> size]

\* Delays with no floor of one second.
ShortDelays == {0, 500, 999}

\* Values of 1000 + Math.random() * 1000.
Delays == {1000, 1500, 1999}

\* Lines 443-453 and 456, 538: after the last chunk, with more than one
\* partial report: the batches, then the first batch call (or, with no
\* batch, the final call).
StartReduction(rn, results) ==
    The({[rn EXCEPT !.chunkResults = results, !.batches = batches, !.i = 0,
                    !.pc = IF batches = <<>> THEN "final_call" ELSE "batch_call",
                    !.callLog = Append(@, IF batches = <<>> THEN Logged("final", 0)
                                          ELSE Logged("batch", Len(batches[1])))]
         : batches \in {Batches(results)}})

\* Lines 354-361 (and 640 when there is no chunk): the loop is entered.
EnterLoop(r) ==
    /\ run[r].pc = "start"
    /\ IF run[r].chunks = 0
       THEN /\ run' = [run EXCEPT ![r].pc = "done", ![r].res = NoChunksReply]
            /\ UNCHANGED call
       ELSE /\ run' = [run EXCEPT ![r].pc = "chunk_call",
                                  ![r].callLog = Append(@, Logged("chunk", 1))]
            /\ call' = [call EXCEPT ![r] = StartCall(DefaultMaxRetries)]
    /\ UNCHANGED <<finalResult, troubled, pureVars>>

\* Lines 416-439 and, after the last chunk, 442-456 or 615-638.
ChunkReturns(r) ==
    /\ run[r].pc = "chunk_call"
    /\ call[r].state = "returned"
    /\ \E results \in {Append(run[r].chunkResults, Stored(call[r].outcome.content))} :
           IF run[r].i < run[r].chunks - 1
           THEN /\ \E d \in Delays :
                      run' = [run EXCEPT ![r].chunkResults = results,
                                         ![r].pc = "chunk_delay",
                                         ![r].delay = d, ![r].delays = @ + 1]
                /\ call' = [call EXCEPT ![r] = IdleCall]
           ELSE IF Len(results) > 1
           THEN /\ run' = [run EXCEPT ![r] = StartReduction(run[r], results)]
                /\ call' = [call EXCEPT ![r] = StartCall(DefaultMaxRetries)]
           ELSE /\ run' = [run EXCEPT ![r].chunkResults = results,
                                      ![r].pc = "done",
                                      ![r].res = ReportReply(results[1], 1, run[r].chunks)]
                /\ call' = [call EXCEPT ![r] = IdleCall]
    /\ UNCHANGED <<finalResult, troubled, pureVars>>

\* Line 438 ends; lines 360-363: the next chunk's call.
ChunkDelayDone(r) ==
    /\ run[r].pc = "chunk_delay"
    /\ run' = [run EXCEPT ![r].pc = "chunk_call", ![r].i = @ + 1, ![r].delay = 0,
                          ![r].callLog = Append(@, Logged("chunk", 1))]
    /\ call' = [call EXCEPT ![r] = StartCall(DefaultMaxRetries)]
    /\ UNCHANGED <<finalResult, troubled, pureVars>>

\* Lines 504-527 and, after the last batch, 538.
BatchReturns(r) ==
    /\ run[r].pc = "batch_call"
    /\ call[r].state = "returned"
    /\ \E results \in {Append(run[r].batchResults, Stored(call[r].outcome.content))} :
           IF run[r].i < Len(run[r].batches) - 1
           THEN /\ \E d \in Delays :
                      run' = [run EXCEPT ![r].batchResults = results,
                                         ![r].pc = "batch_delay",
                                         ![r].delay = d, ![r].delays = @ + 1]
                /\ call' = [call EXCEPT ![r] = IdleCall]
           ELSE /\ run' = [run EXCEPT ![r].batchResults = results,
                                      ![r].pc = "final_call",
                                      ![r].callLog = Append(@, Logged("final", Len(results)))]
                /\ call' = [call EXCEPT ![r] = StartCall(DefaultMaxRetries)]
    /\ UNCHANGED <<finalResult, troubled, pureVars>>

\* Line 526 ends; lines 456-460: the next batch's call.
BatchDelayDone(r) ==
    /\ run[r].pc = "batch_delay"
    /\ run' = [run EXCEPT ![r].pc = "batch_call", ![r].i = @ + 1, ![r].delay = 0,
                          ![r].callLog =
                              Append(@, Logged("batch", Len(run[r].batches[run[r].i + 2])))]
    /\ call' = [call EXCEPT ![r] = StartCall(DefaultMaxRetries)]
    /\ UNCHANGED <<finalResult, troubled, pureVars>>

\* The reply built from what the shared finalResult held before this
\* request's assignment.
FinalReturnsRepliesShared(r) ==
    /\ run[r].pc = "final_call"
    /\ call[r].state = "returned"
    /\ \E f \in {Finish(call[r].outcome.content)} :
           finalResult' = IF f.assigned THEN f.value ELSE finalResult
    /\ run' = [run EXCEPT ![r].pc = "done",
                  ![r].res = ReportReply(JSONStringify(finalResult),
                                         run[r].chunks, run[r].chunks)]
    /\ call' = [call EXCEPT ![r] = IdleCall]
    /\ UNCHANGED <<troubled, pureVars>>

\* Lines 590-614: finalResult here is the undeclared, shared variable.
FinalReturns(r) ==
    /\ run[r].pc = "final_call"
    /\ call[r].state = "returned"
    /\ \E f \in {Finish(call[r].outcome.content)} :
           finalResult' = IF f.assigned THEN f.value ELSE finalResult
    /\ run' = [run EXCEPT ![r].pc = "done",
                  ![r].res = ReportReply(call[r].outcome.content,
                                         run[r].chunks, run[r].chunks)]
    /\ call' = [call EXCEPT ![r] = IdleCall]
    /\ UNCHANGED <<troubled, pureVars>>

\* Lines 642-650: a remote call threw.
CallFails(r) ==
    /\ run[r].pc \in {"chunk_call", "batch_call", "final_call"}
    /\ call[r].state = "thrown"
    /\ run' = [run EXCEPT ![r].pc = "done", ![r].res = FailureReply(call[r].outcome)]
    /\ call' = [call EXCEPT ![r] = IdleCall]
    /\ UNCHANGED <<finalResult, troubled, pureVars>>

(***************************************************************************)
(* The analysis pipeline: one request, the remote service answering.       *)
(***************************************************************************)
MaxChunks == 11
VariedChunks == 1
MaxTroubledCalls == 1

\* What the remote service may send as a response's content: the report
\* asked for; a record without categories or timestamp, fenced and with
\* trailing commas; text that is no JSON; null; a record whose timestamp is
\* the empty string.
GoodText == JSONStringify(GoodReport)
FencedBareText == FencedNoisy(JObj(<<JPair(<<"summary">>, JStr(<<"ok">>))>>))
GarbageText == <<"o", "o", "p", "s">>
EmptyStampText ==
    JSONStringify(JObj(<<JPair(<<"summary">>, JStr(<<"ok">>)),
                         JPair(<<"timestamp">>, JStr(<<>>))>>))

Contents == {GoodText, FencedBareText, GarbageText, NullText, EmptyStampText}

\* Runs of many chunks get the report asked for at each chunk.
ContentsFor(r) ==
    IF run[r].pc = "chunk_call" /\ run[r].chunks > VariedChunks
    THEN {GoodText} ELSE Contents

StartedRun(n) == [IdleRun EXCEPT !.pc = "start", !.chunks = n]

InitPipeline ==
    /\ \E n \in 0..MaxChunks :
          run = [r \in Reqs |-> IF r = 1 THEN StartedRun(n) ELSE IdleRun]
    /\ call = [r \in Reqs |-> IdleCall]
    /\ finalResult = JNull
    /\ troubled = 0
    /\ PureIdle

RemoteResponds(r) ==
    /\ \E content \in ContentsFor(r) : AxiosResponds(r, content)
    /\ UNCHANGED <<pipelineVars, pureVars>>

RemoteRateLimits(r) ==
    /\ call[r].rejections > 0 \/ troubled < MaxTroubledCalls
    /\ AxiosRejects(r, RateLimitError(NoHint), 0)
    /\ troubled' = IF call[r].rejections = 0 THEN troubled + 1 ELSE troubled
    /\ UNCHANGED <<run, finalResult, pureVars>>

RemoteFails(r) ==
    /\ \E err \in Faults : AxiosRejects(r, err, 0)
    /\ UNCHANGED <<pipelineVars, pureVars>>

RetrySleepDone(r) ==
    /\ SleepDone(r)
    /\ UNCHANGED <<pipelineVars, pureVars>>

NextPipeline ==
    \/ EnterLoop(1)
    \/ ChunkReturns(1)
    \/ ChunkDelayDone(1)
    \/ BatchReturns(1)
    \/ BatchDelayDone(1)
    \/ FinalReturns(1)
    \/ CallFails(1)
    \/ RemoteResponds(1)
    \/ RemoteRateLimits(1)
    \/ RemoteFails(1)
    \/ RetrySleepDone(1)

SpecPipeline == InitPipeline /\ [][NextPipeline]_vars

(***************************************************************************)
(* Properties of the analysis pipeline, checked under SpecPipeline.        *)
(***************************************************************************)
\* A degraded record: one that carries the error marker.
IsDegraded(v) == v.t = "obj" /\ HasKey(v, <<"error">>)

\* A well-formed category: a record with a title and a risks array.
IsCategory(c) ==
    /\ c.t = "obj"
    /\ HasKey(c, <<"title">>) /\ Get(c, <<"title">>).t = "str"
    /\ HasKey(c, <<"risks">>) /\ Get(c, <<"risks">>).t = "arr"

HasSixCategories(v) ==
    /\ v.t = "obj"
    /\ HasKey(v, <<"strideCategories">>)
    /\ LET cats == Get(v, <<"strideCategories">>)
       IN  /\ cats.t = "arr"
           /\ Len(cats.kids) = 6
           /\ \A k \in 1..Len(cats.kids) : IsCategory(cats.kids[k])
           /\ {Get(cats.kids[k], <<"title">>).s : k \in 1..Len(cats.kids)}
                 = {<<StrideTitles[k]>> : k \in 1..Len(StrideTitles)}

\* The reply of a run carries a report: sent, with status 200 and no error.
Replied(r) == run[r].res.sent /\ run[r].res.status = 200 /\ run[r].res.error = <<>>

\* The report texts a run holds: partial, intermediate and replied.
ReportTexts(r) ==
    {run[r].chunkResults[k] : k \in 1..Len(run[r].chunkResults)}
    \cup {run[r].batchResults[k] : k \in 1..Len(run[r].batchResults)}
    \cup (IF Replied(r) THEN {run[r].res.result} ELSE {})

\* C8: every report held at any level (partial, intermediate, final) that is
\* not a degraded record has exactly the six STRIDE categories, each with a
\* risks array, whatever the remote service returned.
C8_SixCategoriesAtEveryLevel ==
    \A r \in Reqs : \A t \in ReportTexts(r) :
        (JSONParse(t).ok /\ ~IsDegraded(JSONParse(t).v)) =>
            HasSixCategories(JSONParse(t).v)

\* The run answered from its only partial report (lines 615-638).
SingleReportDone(r) ==
    run[r].pc = "done" /\ run[r].chunks = 1 /\ run[r].res.sent /\ run[r].res.status = 200

\* out is the record report with a timestamp member and no other change.
SameButTimestamp(report, out) ==
    /\ report.t = "obj" /\ out.t = "obj"
    /\ HasKey(out, <<"timestamp">>)
    /\ HasKey(report, <<"timestamp">>) =>
          Get(out, <<"timestamp">>) = Get(report, <<"timestamp">>)
    /\ \A k \in 1..Len(report.kids) :
          report.kids[k].s # <<"timestamp">> =>
              /\ HasKey(out, report.kids[k].s)
              /\ Get(out, report.kids[k].s) = report.kids[k].kids[1]
    /\ \A k \in 1..Len(out.kids) :
          out.kids[k].s # <<"timestamp">> => HasKey(report, out.kids[k].s)

\* C9: with exactly one partial report no reduction call is issued, and the
\* reply is that report with a timestamp (its own if it has one, a new one
\* otherwise) and nothing else changed.
C9_SingleReportPassedThrough ==
    \A r \in Reqs :
        SingleReportDone(r) =>
            /\ Len(run[r].callLog) = 1
            /\ run[r].res.error = <<>>
            /\ JSONParse(run[r].res.result).ok
            /\ SameButTimestamp(JSONParse(run[r].chunkResults[1]).v,
                                JSONParse(run[r].res.result).v)

\* What holds of C9: no reduction call is issued, and a partial report that
\* is a record with no timestamp or a non-empty one is passed through as
\* C9 says.
C9_RecordReportPassedThrough ==
    \A r \in Reqs :
        SingleReportDone(r) =>
            /\ Len(run[r].callLog) = 1
            /\ LET report == JSONParse(run[r].chunkResults[1]).v
               IN  (/\ report.t = "obj"
                    /\ HasKey(report, <<"timestamp">>) =>
                          IsText(Get(report, <<"timestamp">>))) =>
                       /\ run[r].res.error = <<>>
                       /\ SameButTimestamp(report, JSONParse(run[r].res.result).v)

\* The kinds of the calls a run has issued once its chunk calls are left out.
ReductionCalls(r) ==
    [k \in 1..(Len(run[r].callLog) - Min(Len(run[r].callLog), run[r].chunks)) |->
        run[r].callLog[run[r].chunks + k].kind]

\* The least number of batches of batchSize that hold n reports.
BatchCount(n) == CHOOSE b \in 0..n : b * batchSize >= n /\ (b - 1) * batchSize < n

\* ceil(n / batchSize) batch calls, then the final call.
ExpectedReduction(n) ==
    [k \in 1..(BatchCount(n) + 1) |-> IF k <= BatchCount(n) THEN "batch" ELSE "final"]

\* C10: for n > batchSize partial reports the reduction issues exactly
\* ceil(n / batchSize) batch calls and then exactly one final call, every
\* batch call before the final one.
C10_BatchCallsThenOneFinal ==
    \A r \in Reqs :
        run[r].chunks > batchSize =>
            /\ Len(ReductionCalls(r)) <= BatchCount(run[r].chunks) + 1
            /\ ReductionCalls(r) =
                  SubSeq(ExpectedReduction(run[r].chunks), 1, Len(ReductionCalls(r)))
            /\ ReductionCalls(r) # <<>> => Len(run[r].chunkResults) = run[r].chunks
            /\ (run[r].pc = "done" /\ Replied(r)) =>
                  ReductionCalls(r) = ExpectedReduction(run[r].chunks)

C10_Witness ==
    /\ run[1].chunks = batchSize + 1
    /\ run[1].pc = "done"
    /\ Replied(1)
    /\ ReductionCalls(1) = <<"batch", "batch", "final">>

\* C11: when the partial reports fit in one batch (2 <= n <= batchSize) the
\* batch's result is the final report: the reduction issues exactly one
\* remote call, and no final consolidation call.
C11_SingleBatchIsFinal ==
    \A r \in Reqs :
        (run[r].chunks >= 2 /\ run[r].chunks <= batchSize) =>
            /\ Len(ReductionCalls(r)) <= 1
            /\ \A k \in 1..Len(ReductionCalls(r)) : ReductionCalls(r)[k] = "batch"

(***************************************************************************)
(* The reduction on its own: a run of n chunks taken up at its last chunk  *)
(* call, every earlier chunk having been answered with the report asked    *)
(* for, and the remote service going on to answer so.                      *)
(***************************************************************************)
MaxReports == 101

\* The run at line 363 for its last chunk, i = n - 1.
AtLastChunk(n) ==
    [IdleRun EXCEPT !.pc = "chunk_call", !.chunks = n, !.i = n - 1,
                    !.chunkResults = [k \in 1..(n - 1) |-> GoodText],
                    !.callLog = [k \in 1..n |-> Logged("chunk", 1)],
                    !.delays = n - 1]

InitReduce ==
    /\ \E n \in 2..MaxReports :
          run = [r \in Reqs |-> IF r = 1 THEN AtLastChunk(n) ELSE IdleRun]
    /\ call = [r \in Reqs |-> IF r = 1 THEN StartCall(DefaultMaxRetries) ELSE IdleCall]
    /\ finalResult = JNull
    /\ troubled = 0
    /\ PureIdle

RemoteRespondsWell(r) ==
    /\ AxiosResponds(r, GoodText)
    /\ UNCHANGED <<pipelineVars, pureVars>>

NextReduce ==
    \/ RemoteRespondsWell(1)
    \/ ChunkReturns(1)
    \/ BatchReturns(1)
    \/ BatchDelayDone(1)
    \/ FinalReturns(1)

SpecReduce == InitReduce /\ [][NextReduce]_vars

\* C12: no request of the reduction step, batch-level or final, holds more
\* than batchSize serialized reports, whatever the number of partial reports.
C12_RequestHoldsAtMostBatchSize ==
    \A r \in Reqs : \A k \in 1..Len(run[r].callLog) :
        run[r].callLog[k].kind \in {"batch", "final"} =>
            run[r].callLog[k].size <= batchSize

\* What holds of C12: no batch-level request holds more than batchSize
\* reports, and the final request holds one report per batch.
C12_BatchRequestHoldsAtMostBatchSize ==
    \A r \in Reqs : \A k \in 1..Len(run[r].callLog) :
        /\ run[r].callLog[k].kind = "batch" => run[r].callLog[k].size <= batchSize
        /\ run[r].callLog[k].kind = "final" =>
              run[r].callLog[k].size = BatchCount(run[r].chunks)

(***************************************************************************)
(* componentBasedChunking (lines 88-186).  Its texts are sequences of      *)
(* single characters, so that lengths and offsets are the program's.       *)
(***************************************************************************)
\* The characters of a string.
Chars(str) == [i \in 1..Len(str) |-> SubSeq(str, i, i)]

UpperCase == Chars("ABCDEFGHIJKLMNOPQRSTUVWXYZ")
LowerCase == Chars("abcdefghijklmnopqrstuvwxyz")

\* The lower-case form of a character (the i flag of a pattern).
ToLower(c) ==
    IF \E k \in 1..Len(UpperCase) : UpperCase[k] = c
    THEN LowerCase[CHOOSE k \in 1..Len(UpperCase) : UpperCase[k] = c]
    ELSE c

\* Whether p, whatever its case, is in s at index i.
MatchesAt(s, i, p) ==
    /\ i >= 1
    /\ i + Len(p) - 1 <= Len(s)
    /\ \A k \in 1..Len(p) : ToLower(s[i + k - 1]) = ToLower(p[k])

\* String.prototype.includes.
Includes(s, p) == \E k \in 1..Len(s) : StartsWithAt(s, k, p)

\* String.prototype.trim.
Trim(s) ==
    Sub(s, Least({k \in 1..Len(s) : ~IsWs(s[k])}, Len(s) + 1),
           Greatest({k \in 1..Len(s) : ~IsWs(s[k])}, 0))

RECURSIVE SplitParagraphs(_, _)
\* Line 101: text.split(/\n\n+/), from index i on.
SplitParagraphs(s, i) ==
    The({IF k > Len(s) THEN <<Sub(s, i, Len(s))>>
         ELSE <<Sub(s, i, k - 1)>>
              \o SplitParagraphs(s, Least({x \in k..Len(s) : s[x] # NL}, Len(s) + 1))
         : k \in {Least({x \in i..(Len(s) - 1) : s[x] = NL /\ s[x + 1] = NL},
                        Len(s) + 1)}})

\* Lines 91-93: the alternatives of the three patterns, in their order.
componentsPattern ==
    <<Chars("Component:"), Chars("Shape:"), Chars("Entity:"), Chars("Service:"),
      Chars("Database:"), Chars("API:"), Chars("Server:"), Chars("Client:"),
      Chars("Interface:")>>

metadataPattern ==
    <<Chars("Label:"), Chars("Description:"), Chars("Metadata:"),
      Chars("Properties:"), Chars("Attributes:"), Chars("Tag:"), Chars("Info:")>>

connectionsPattern ==
    <<Chars("Connection:"), Chars("Flow:"), Chars("Relationship:"), Chars("Link:"),
      Chars("Arrow:"), Chars("Data Flow:"), Chars("Connects to:"),
      Chars("Interacts with:"), Chars("Sends data to:"),
      Chars("Receives data from:")>>

\* The first alternative of a pattern that is in s at index i (0 if none is).
AlternativeAt(pattern, s, i) ==
    Least({a \in 1..Len(pattern) : MatchesAt(s, i, pattern[a])}, 0)

\* RegExp.prototype.test of a pattern with the g flag, whose lastIndex is
\* last (an offset from 0): the search starts at lastIndex; a match leaves
\* lastIndex at its end, a failure leaves it at 0.
Test(pattern, last, s) ==
    The({IF k > Len(s) THEN [matched |-> FALSE, last |-> 0]
         ELSE [matched |-> TRUE,
               last |-> k - 1 + Len(pattern[AlternativeAt(pattern, s, k)])]
         : k \in {Least({x \in (last + 1)..Len(s) : AlternativeAt(pattern, s, x) # 0},
                        Len(s) + 1)}})

\* The character U+2194 of line 121, which no text here holds.
BothWaysArrow == "<both-ways arrow>"

MetadataMaxLength == 200

\* Lines 121-139: the class of a paragraph that no pattern matched.
Heuristic(paragraph) ==
    IF \/ Includes(paragraph, Chars("->")) \/ Includes(paragraph, <<BothWaysArrow>>)
       \/ Includes(paragraph, Chars("connects")) \/ Includes(paragraph, Chars("flow"))
    THEN "connection"
    ELSE IF /\ Len(paragraph) < MetadataMaxLength
            /\ Includes(paragraph, Chars(":")) \/ Includes(paragraph, Chars("="))
    THEN "metadata"
    ELSE "component"

\* The lastIndex of the three patterns before the first paragraph.
FreshPatterns == [components |-> 0, connections |-> 0, metadata |-> 0]

\* Lines 104-140: the class given to a paragraph, and the lastIndex each
\* pattern is left with; a pattern is tested only if those before it failed.
Classified(last, paragraph) ==
    The({
        IF c.matched
        THEN [class |-> "component", last |-> [last EXCEPT !.components = c.last]]
        ELSE The({
            IF n.matched
            THEN [class |-> "connection",
                  last |-> [last EXCEPT !.components = 0, !.connections = n.last]]
            ELSE The({
                [class |-> IF m.matched THEN "metadata" ELSE Heuristic(paragraph),
                 last |-> [components |-> 0, connections |-> 0, metadata |-> m.last]]
                : m \in {Test(metadataPattern, last.metadata, paragraph)}})
            : n \in {Test(connectionsPattern, last.connections, paragraph)}})
        : c \in {Test(componentsPattern, last.components, paragraph)}})

Chunk(type, content) == [type |-> type, content |-> content]

RECURSIVE ClassifyAll(_, _, _)
\* Lines 103-141: the forEach over the paragraphs from the i-th on; the
\* result is the chunks in paragraph order, each with its class as type.
ClassifyAll(paragraphs, i, last) ==
    IF i > Len(paragraphs) THEN <<>>
    ELSE The({<<Chunk(c.class, Trim(paragraphs[i]))>>
              \o ClassifyAll(paragraphs, i + 1, c.last)
              : c \in {Classified(last, paragraphs[i])}})

\* The chunks of one type, in their order.
OfType(chunks, type) == SelectSeq(chunks, LAMBDA c : c.type = type)

\* The class [^"'\n,] of the capture of lines 147-150.
InCapture(c) == c \notin {DQ, SQ, NL, ","}

\* Where the capture of ["']?([^"'\n,]+) starts when the white space before
\* it starts at a and must be at least minWs long (0 if it cannot start): the
\* white space is taken whole, then an opening quote if a capture can follow
\* it; failing that the white space gives back characters, the last one of
\* the run that is no newline starting the capture.
CaptureStart(s, a, minWs) ==
    The({IF e < a + minWs THEN 0
         ELSE IF e + 1 <= Len(s) /\ s[e] \in {DQ, SQ} /\ InCapture(s[e + 1]) THEN e + 1
         ELSE IF e <= Len(s) /\ InCapture(s[e]) THEN e
         ELSE Greatest({k \in (a + minWs)..(e - 1) : s[k] # NL}, 0)
         : e \in {SkipWs(s, a)}})

\* Where the capture starts for the keyword found at i: after \s+ for a bare
\* keyword (from, to), after \s*[:=]\s* for a labelled one (source, target).
CaptureAfter(s, i, keyword, labelled) ==
    The({IF ~labelled THEN CaptureStart(s, a, 1)
         ELSE The({IF b <= Len(s) /\ s[b] \in {":", "="}
                   THEN CaptureStart(s, b + 1, 0) ELSE 0
                   : b \in {SkipWs(s, a)}})
         : a \in {i + Len(keyword)}})

NoMatch == [matched |-> FALSE, group |-> <<>>]

\* String.prototype.match with one of the patterns of lines 147-150: the
\* leftmost place where the keyword stands and a capture follows, and the
\* capture, which runs as far as its class does.
Match(s, keyword, labelled) ==
    The({IF i = 0 THEN NoMatch
         ELSE The({[matched |-> TRUE,
                    group |-> Sub(s, c, Least({k \in c..Len(s) : ~InCapture(s[k])},
                                              Len(s) + 1) - 1)]
                   : c \in {CaptureAfter(s, i, keyword, labelled)}})
         : i \in {Least({k \in 1..Len(s) :
                           /\ MatchesAt(s, k, keyword)
                           /\ CaptureAfter(s, k, keyword, labelled) # 0}, 0)}})

\* Lines 147-148 and 149-150: the bare pattern, else the labelled one.
EitherMatch(s, bare, label) ==
    The({IF m.matched THEN m ELSE Match(s, label, TRUE)
         : m \in {Match(s, bare, FALSE)}})

sourceMatch(content) == EitherMatch(content, Chars("from"), Chars("source"))
targetMatch(content) == EitherMatch(content, Chars("to"), Chars("target"))

\* The place of a key among the groups (0 if it has none).
GroupIndex(groups, key) ==
    Least({k \in 1..Len(groups) : groups[k].key = key}, 0)

\* Lines 152-162: one connection put into groupedConnections, whose
\* properties are kept here in the order they were created.
Grouped(groups, conn) ==
    \* Lines 147-150
    LET source == sourceMatch(conn.content)
        target == targetMatch(conn.content)
    IN
    IF source.matched /\ target.matched
    THEN The({IF at = 0
              THEN Append(groups, [key |-> source.group \o <<"_">> \o target.group,
                                   conns |-> <<conn>>])
              ELSE [groups EXCEPT ![at].conns = Append(@, conn)]
              : at \in {GroupIndex(groups, source.group \o <<"_">> \o target.group)}})
    ELSE The({IF GroupIndex(groups, key) = 0
              THEN Append(groups, [key |-> key, conns |-> <<conn>>])
              ELSE [groups EXCEPT ![GroupIndex(groups, key)].conns = <<conn>>]
              : key \in {Chars("conn_") \o Chars(ToString(Len(groups)))}})

RECURSIVE groupedConnections(_, _, _)
\* Lines 144-163: the forEach over the connection chunks from the i-th on.
groupedConnections(connectionChunks, i, groups) ==
    IF i > Len(connectionChunks) THEN groups
    ELSE groupedConnections(connectionChunks, i + 1,
                            Grouped(groups, connectionChunks[i]))

RECURSIVE JoinContents(_, _)
\* Line 172: the contents of a group from the i-th on, joined by a blank line.
JoinContents(conns, i) ==
    IF i > Len(conns) THEN <<>>
    ELSE IF i = Len(conns) THEN conns[i].content
    ELSE conns[i].content \o <<NL, NL>> \o JoinContents(conns, i + 1)

\* The metadata chunks put before the component chunks.
allChunksMetadataFirst(chunks) ==
    OfType(chunks, "metadata") \o OfType(chunks, "component")
    \o The({[k \in 1..Len(groups) |->
                Chunk("connection_group", JoinContents(groups[k].conns, 1))]
            : groups \in {groupedConnections(OfType(chunks, "connection"), 1, <<>>)}})

\* Lines 166-175.
allChunks(chunks) ==
    OfType(chunks, "component") \o OfType(chunks, "metadata")
    \o The({[k \in 1..Len(groups) |->
                Chunk("connection_group", JoinContents(groups[k].conns, 1))]
            : groups \in {groupedConnections(OfType(chunks, "connection"), 1, <<>>)}})

MinContentLength == 10

\* Line 179: the filter of the chunks worth keeping.
Usable(chunk) == Len(chunk.content) > 0 /\ Len(Trim(chunk.content)) > MinContentLength

\* Line 180: the type in capitals, as the head of the segment.
TypeTag(type) ==
    CASE type = "component" -> Chars("[COMPONENT]")
      [] type = "metadata" -> Chars("[METADATA]")
      [] type = "connection_group" -> Chars("[CONNECTION_GROUP]")

\* Lines 178-180.
Rendered(chunks) ==
    The({[k \in 1..Len(kept) |-> TypeTag(kept[k].type) \o <<NL>> \o kept[k].content]
         : kept \in {SelectSeq(chunks, Usable)}})

\* Lines 88-186, for a text, whose structural pass throws nothing: the catch
\* of lines 181-185 is entered by no string.
componentBasedChunking(text) ==
    Rendered(allChunks(ClassifyAll(SplitParagraphs(text, 1), 1, FreshPatterns)))

--------------------------------------------------------------------------
\* The segmenter on its own: a text is drawn, componentBasedChunking is
\* called on it once.

MaxParagraphs == 3

\* Paragraphs as an architecture description holds them: components, a
\* connection told in plain words, labelled and arrowed connections, a
\* label, one of ten characters, and one too short to be kept.
Paragraphs ==
    {Chars("Component: A handles logins"), Chars("Component: B stores data"),
     Chars("A sends data to B"), Chars("Flow: from A to B"),
     Chars("web -> db connects"), Chars("Label: blue box"), Chars("API: users"),
     Chars("short")}

RECURSIVE JoinParagraphs(_)
\* Paragraphs with a blank line between them.
JoinParagraphs(ps) ==
    IF Len(ps) = 1 THEN ps[1]
    ELSE ps[1] \o <<NL, NL>> \o JoinParagraphs(Tail(ps))

SegmentTexts ==
    {JoinParagraphs(ps) : ps \in UNION {[1..n -> Paragraphs] : n \in 1..MaxParagraphs}}

InitSegment ==
    /\ segIn \in SegmentTexts
    /\ segOut = NotSegmented
    /\ RecoverIdle
    /\ RankIdle
    /\ DashIdle
    /\ call = [r \in Reqs |-> IdleCall]
    /\ PipelineIdle

\* Line 354: the handler's call of componentBasedChunking on the text.
SegmentCall ==
    /\ ~segOut.done
    /\ segOut' = [done |-> TRUE, chunks |-> componentBasedChunking(segIn)]
    /\ UNCHANGED <<segIn, recoverVars, call, pipelineVars, rankVars, dash>>

NextSegment == SegmentCall

SpecSegment == InitSegment /\ [][NextSegment]_vars

\* C13: for every non-empty text the segmenter returns at least one segment.
C13_NonEmptyTextYieldsSegment ==
    (segOut.done /\ Len(segIn) > 0) => Len(segOut.chunks) >= 1

\* Whether a segment is of a type: it starts with the type's tag and a newline.
HasTag(segment, type) == StartsWithAt(segment, 1, TypeTag(type) \o <<NL>>)

CountTagged(segments, type) ==
    Cardinality({k \in 1..Len(segments) : HasTag(segments[k], type)})

ScenarioText ==
    JoinParagraphs(<<Chars("Component: A handles logins"),
                     Chars("Component: B stores data"), Chars("A sends data to B")>>)

\* C14: two component paragraphs followed by "A sends data to B" are
\* segmented into exactly two Component segments and one ConnectionGroup.
C14_TwoComponentsOneConnectionGroup ==
    (segOut.done /\ segIn = ScenarioText) =>
        /\ Len(segOut.chunks) = 3
        /\ CountTagged(segOut.chunks, "component") = 2
        /\ CountTagged(segOut.chunks, "connection_group") = 1

\* Whether a paragraph holds one of the component keywords.
HoldsComponentKeyword(paragraph) ==
    \E k \in 1..Len(paragraph) : AlternativeAt(componentsPattern, paragraph, k) # 0

\* C20: every paragraph holding a component keyword is emitted as a
\* Component segment, whatever paragraphs stand before it in the text.
C20_KeywordParagraphIsComponent ==
    segOut.done =>
        \A k \in 1..Len(SplitParagraphs(segIn, 1)) :
            HoldsComponentKeyword(SplitParagraphs(segIn, 1)[k]) =>
                \E j \in 1..Len(segOut.chunks) :
                    segOut.chunks[j] = TypeTag("component") \o <<NL>>
                                       \o Trim(SplitParagraphs(segIn, 1)[k])

--------------------------------------------------------------------------
\* The chunk loop with every kind of response at every chunk: a request of
\* a few chunks, the remote service answering each chunk's call with any of
\* Contents or a fault, and the reduction's calls with the report asked for.

MaxSegments == 3

InitAnalyze ==
    /\ \E n \in 1..MaxSegments :
          run = [r \in Reqs |-> IF r = 1 THEN StartedRun(n) ELSE IdleRun]
    /\ call = [r \in Reqs |-> IdleCall]
    /\ finalResult = JNull
    /\ troubled = 0
    /\ PureIdle

RemoteAnswers(r) ==
    /\ \E content \in IF run[r].pc = "chunk_call" THEN Contents ELSE {GoodText} :
          AxiosResponds(r, content)
    /\ UNCHANGED <<pipelineVars, pureVars>>

NextAnalyze ==
    \/ EnterLoop(1)
    \/ RemoteAnswers(1)
    \/ RemoteFails(1)
    \/ ChunkReturns(1)
    \/ ChunkDelayDone(1)
    \/ BatchReturns(1)
    \/ FinalReturns(1)
    \/ CallFails(1)

SpecAnalyze == InitAnalyze /\ [][NextAnalyze]_vars

\* The chunk loop of a run is over and no call of it failed.
LoopCompleted(r) ==
    \/ run[r].pc \in {"batch_call", "batch_delay", "final_call"}
    \/ run[r].pc = "done" /\ run[r].res.status = 200

\* The entry is what the recovery made of the response's content, serialized.
DerivedFrom(entry, content) ==
    /\ JSONParse(entry).ok
    /\ ~cleanAndFixJSON(content).threw
    /\ JSONParse(entry).v = cleanAndFixJSON(content).value

\* C15: a chunk loop that completes without a remote failure holds exactly
\* one entry per segment; the entry of the i-th segment is appended when the
\* i-th call returns, after those of the segments before it, and is derived
\* from that call's response, a degraded record included.
C15_OneEntryPerSegmentInOrder ==
    /\ [](\A r \in Reqs : LoopCompleted(r) => Len(run[r].chunkResults) = run[r].chunks)
    /\ [][\A r \in Reqs :
            (run[r].pc = "chunk_call" /\ call[r].state = "returned") =>
                /\ Len(run[r].chunkResults) = run[r].i
                /\ Len(run'[r].chunkResults) = run[r].i + 1
                /\ SubSeq(run'[r].chunkResults, 1, run[r].i) = run[r].chunkResults
                /\ DerivedFrom(run'[r].chunkResults[run[r].i + 1],
                               call[r].outcome.content)]_vars

C15_Witness ==
    /\ LoopCompleted(1)
    /\ run[1].chunks = MaxSegments
    /\ Len(run[1].chunkResults) = MaxSegments
    /\ IsDegraded(JSONParse(run[1].chunkResults[2]).v)
    /\ ~IsDegraded(JSONParse(run[1].chunkResults[1]).v)
    /\ ~IsDegraded(JSONParse(run[1].chunkResults[MaxSegments]).v)

\* The last member of a sequence of report texts, parsed.
LastParsed(results) == JSONParse(results[Len(results)])

\* A returned call's content was absorbed: the run did not end in a failure,
\* and content that no repair makes parseable became a degraded record where
\* the level keeps its result.
Absorbed(before, after, content) ==
    /\ after.pc = "done" => after.res.status = 200
    /\ Unparseable(content) =>
          CASE before.pc = "chunk_call" ->
                   /\ Len(after.chunkResults) = Len(before.chunkResults) + 1
                   /\ LastParsed(after.chunkResults).ok
                   /\ IsDegraded(LastParsed(after.chunkResults).v)
            [] before.pc = "batch_call" ->
                   /\ Len(after.batchResults) = Len(before.batchResults) + 1
                   /\ LastParsed(after.batchResults).ok
                   /\ IsDegraded(LastParsed(after.batchResults).v)
            [] before.pc = "final_call" ->
                   /\ after.res.error = <<>>
                   /\ JSONParse(after.res.result).ok
                   /\ IsDegraded(JSONParse(after.res.result).v)

\* All the calls of a run of n chunks: one per chunk, then the reduction's.
AllCalls(n) ==
    [k \in 1..n |-> "chunk"] \o (IF n >= 2 THEN ExpectedReduction(n) ELSE <<>>)

InternalErrorStatus == 500

\* The reply to a thrown call carries the error: a remote fault's status and
\* body, and the message with status 500 where there is no remote response
\* (a connection error, retries exhausted).
CarriesError(reply, outcome) ==
    /\ reply.sent
    /\ reply.status # 200
    /\ reply.result = <<>>
    /\ reply.error = outcome.details
    /\ reply.status = IF outcome.kind = "error" /\ outcome.status # 0
                      THEN outcome.status ELSE InternalErrorStatus
    /\ outcome.kind = "exhausted" =>
          reply.error = <<"Failed after ", ToString(DefaultMaxRetries), " retries">>

\* C17: when a remote call of a run throws (a fault that is no rate limit,
\* or retries exhausted) the run ends there: the next step of the run sends
\* the error reply and issues no call, and a run that has replied issues no
\* further call and sends no other reply.
C17_RemoteFailureAborts ==
    [][\A r \in Reqs :
          /\ call[r].state = "thrown" =>
                /\ run'[r].pc = "done"
                /\ run'[r].callLog = run[r].callLog
                /\ call'[r] = IdleCall
                /\ CarriesError(run'[r].res, call[r].outcome)
          /\ run[r].pc = "done" => run'[r] = run[r] /\ call'[r] = call[r]]_vars

C17_Witness ==
    /\ run[1].pc = "done"
    /\ run[1].chunks = batchSize + 1
    /\ Len(run[1].callLog) = batchSize + 2
    /\ run[1].res.status = 401
    /\ run[1].res.error = <<"invalid_api_key">>
    /\ call[1] = IdleCall

\* A run that ended because the retries of a call were exhausted.
C17_ExhaustedSeen ==
    /\ run[1].pc = "done"
    /\ run[1].res.status = InternalErrorStatus
    /\ run[1].res.error = <<"Failed after ", "5", " retries">>

--------------------------------------------------------------------------
\* findRelevantChunks: the chunks nearest to a query by their embeddings.

RECURSIVE Dot(_, _, _)
\* Lines 209-211: the sum of the reduce over vecA from index i on.
Dot(vecA, vecB, i) ==
    IF i > Len(vecA) THEN 0 ELSE vecA[i] * vecB[i] + Dot(vecA, vecB, i + 1)

\* Lines 208-213: dotProduct / (magA * magB), kept by its exact parts, the
\* magnitudes by their squares.
cosineSimilarity(vecA, vecB) ==
    [dot |-> Dot(vecA, vecB, 1), magA2 |-> Dot(vecA, vecA, 1), magB2 |-> Dot(vecB, vecB, 1)]

\* n * |n|: the square of a number, with the number's sign.
SignedSquare(n) == IF n < 0 THEN 0 - n * n ELSE n * n

\* Whether score s is greater than score t (vectors that are not zero).
Above(s, t) ==
    SignedSquare(s.dot) * t.magA2 * t.magB2 > SignedSquare(t.dot) * s.magA2 * s.magB2

\* An item put before the items of equal score instead of after them.
InsertBeforeEqual(sorted, item) ==
    The({SubSeq(sorted, 1, at - 1) \o <<item>> \o SubSeq(sorted, at, Len(sorted))
         : at \in {Least({k \in 1..Len(sorted) : ~Above(sorted[k].score, item.score)},
                         Len(sorted) + 1)}})

\* Line 230: an item takes its place in the list sorted so far, by the
\* comparator b.score - a.score: before the first item it has a greater score
\* than, after every item of equal score (Array.prototype.sort is stable).
Insert(sorted, item) ==
    The({SubSeq(sorted, 1, at - 1) \o <<item>> \o SubSeq(sorted, at, Len(sorted))
         : at \in {Least({k \in 1..Len(sorted) : Above(item.score, sorted[k].score)},
                         Len(sorted) + 1)}})

RECURSIVE Sort(_, _, _)
\* Line 230: the sort of the items from the i-th on into the sorted list.
Sort(items, i, sorted) ==
    IF i > Len(items) THEN sorted
    ELSE Sort(items, i + 1, Insert(sorted, items[i]))

\* Lines 223-232: the indices of the topK chunks of greatest similarity.
topIndices(queryEmbedding, chunkEmbeddings, topK) ==
    The({[k \in 1..Min(topK, Len(sorted)) |-> sorted[k].index]
         : sorted \in {Sort([k \in 1..Len(chunkEmbeddings) |->
                               [score |-> cosineSimilarity(queryEmbedding,
                                                           chunkEmbeddings[k]),
                                index |-> k]], 1, <<>>)}})

\* No chunk at all in place of the first ones.
NoChunks(chunks, topK) == <<>>

\* Line 239: chunks.slice(0, topK).
FirstChunks(chunks, topK) == Sub(chunks, 1, Min(topK, Len(chunks)))

\* Lines 216-241.  asked holds the call's arguments, the embedding each
\* chunk gets, and which embedding request fails, if any: a failure throws
\* from line 219 or 220 into the catch of line 236.
findRelevantChunks(asked) ==
    IF asked.failing # "none"
    THEN [done |-> TRUE, threw |-> FALSE,
          chunks |-> FirstChunks([k \in 1..Len(asked.chunks) |-> asked.chunks[k].text],
                                 asked.topK)]
    ELSE The({[done |-> TRUE, threw |-> FALSE,
               chunks |-> [k \in 1..Len(top) |-> asked.chunks[top[k]].text]]
              : top \in {topIndices(asked.query,
                                    [k \in 1..Len(asked.chunks) |->
                                        asked.chunks[k].embedding],
                                    asked.topK)}})

MaxRankChunks == 4
MaxTopK == 3

\* Embeddings: no zero vector, no two of the same direction and different
\* length; some at the same angle to a query.
Embeddings == {<<1, 0>>, <<0, 1>>, <<1, 1>>, <<-1, 0>>}
QueryEmbeddings == {<<1, 0>>, <<1, 1>>}

\* The chunks of a call: the k-th has the text k.
ChunkLists ==
    UNION {{[k \in 1..n |-> [text |-> <<ToString(k)>>, embedding |-> e[k]]]
            : e \in [1..n -> Embeddings]} : n \in 0..MaxRankChunks}

InitRank ==
    /\ rankIn \in [query : QueryEmbeddings, chunks : ChunkLists, topK : 1..MaxTopK,
                   failing : {"none", "query", "chunks"}]
    /\ rankOut = NotRanked
    /\ RecoverIdle
    /\ SegmentIdle
    /\ DashIdle
    /\ call = [r \in Reqs |-> IdleCall]
    /\ PipelineIdle

\* Line 332: the call of findRelevantChunks.
RankCall ==
    /\ ~rankOut.done
    /\ rankOut' = findRelevantChunks(rankIn)
    /\ UNCHANGED <<rankIn, recoverVars, segmentVars, call, pipelineVars, dash>>

NextRank == RankCall

SpecRank == InitRank /\ [][NextRank]_vars

\* The place in the input of a returned chunk (0 if it is in no place).
IndexOf(text) ==
    Least({k \in 1..Len(rankIn.chunks) : rankIn.chunks[k].text = text}, 0)

\* The score of the chunk at a place of the input.
ScoreAt(k) == cosineSimilarity(rankIn.query, rankIn.chunks[k].embedding)

\* C18: with all embeddings made, findRelevantChunks returns
\* min(topK, len(chunks)) chunks of distinct places of the input, by
\* descending similarity, no chunk left out scoring above a returned one,
\* and chunks of equal score in their input order.
C18_TopKByDescendingScoreStable ==
    (rankOut.done /\ rankIn.failing = "none") =>
        /\ ~rankOut.threw
        /\ Len(rankOut.chunks) = Min(rankIn.topK, Len(rankIn.chunks))
        /\ \A i \in 1..Len(rankOut.chunks) : IndexOf(rankOut.chunks[i]) # 0
        /\ \A i, j \in 1..Len(rankOut.chunks) :
              i < j =>
                 /\ IndexOf(rankOut.chunks[i]) # IndexOf(rankOut.chunks[j])
                 /\ ~Above(ScoreAt(IndexOf(rankOut.chunks[j])),
                           ScoreAt(IndexOf(rankOut.chunks[i])))
                 /\ ~Above(ScoreAt(IndexOf(rankOut.chunks[i])),
                           ScoreAt(IndexOf(rankOut.chunks[j])))
                       => IndexOf(rankOut.chunks[i]) < IndexOf(rankOut.chunks[j])
        /\ \A k \in 1..Len(rankIn.chunks) :
              (\A i \in 1..Len(rankOut.chunks) : IndexOf(rankOut.chunks[i]) # k) =>
                  \A i \in 1..Len(rankOut.chunks) :
                      ~Above(ScoreAt(k), ScoreAt(IndexOf(rankOut.chunks[i])))

\* Four chunks, the first of least score, the second and fourth of equal
\* greatest score, and the best three asked for.
C18_Witness ==
    /\ rankOut.done
    /\ rankIn.failing = "none"
    /\ rankIn.topK = 3
    /\ rankIn.query = <<1, 1>>
    /\ [k \in 1..Len(rankIn.chunks) |-> rankIn.chunks[k].embedding]
           = <<(<<-1, 0>>), (<<1, 0>>), (<<1, 1>>), (<<0, 1>>)>>
    /\ rankOut.chunks = <<(<<"3">>), (<<"2">>), (<<"4">>)>>

\* C19: when the embedding of the query or of the chunks fails,
\* findRelevantChunks throws nothing and returns the first topK chunks of the
\* input in their order, all of them when there are fewer.
C19_FailureReturnsFirstChunks ==
    (rankOut.done /\ rankIn.failing # "none") =>
        /\ ~rankOut.threw
        /\ Len(rankOut.chunks) = Min(rankIn.topK, Len(rankIn.chunks))
        /\ \A i \in 1..Len(rankOut.chunks) : rankOut.chunks[i] = rankIn.chunks[i].text

C19_Witness ==
    /\ rankOut.done
    /\ rankIn.failing = "chunks"
    /\ rankIn.topK = 3
    /\ Len(rankIn.chunks) = 4
    /\ rankIn.chunks[4].embedding = <<1, 1>>
    /\ rankIn.query = <<1, 1>>
    /\ rankOut.chunks = <<(<<"1">>), (<<"2">>), (<<"3">>)>>

--------------------------------------------------------------------------
\* C21: after a 429 with no wait hint that line 41 can read, the sleep before
\* the next attempt, at retry count r, is at least 31 s + 5 s * r and less
\* than 32 s + 5 s * r.
C21_DefaultSleepIncludesBuffer ==
    (TheCall.state = "sleeping" /\ ~IsDecimalHint(TheCall.error.details)) =>
        /\ TheCall.slept >= DefaultWaitMs + HintBufferMs + TheCall.retries * BackoffStepMs
        /\ TheCall.slept < DefaultWaitMs + 2 * HintBufferMs + TheCall.retries * BackoffStepMs

\* What the code sleeps in that case: 30 s + 5 s * r and a jitter below 1 s.
C21_DefaultSleepWithoutBuffer ==
    (TheCall.state = "sleeping" /\ ~IsDecimalHint(TheCall.error.details)) =>
        /\ TheCall.slept >= DefaultWaitMs + TheCall.retries * BackoffStepMs
        /\ TheCall.slept < DefaultWaitMs + HintBufferMs + TheCall.retries * BackoffStepMs

\* C26: every rate-limit rejection is followed by a full backoff sleep, the
\* last one before giving up included: outside a sleep the sleeps slept are
\* as many as the rejections received, a sleep in progress is the one of the
\* latest rejection and lasts the whole wait, and the exhausted-retries error
\* is raised only once the final rejection has been slept out.
C26_EveryRejectionSleptOut ==
    /\ TheCall.state = "sleeping" =>
          /\ TheCall.sleeps + 1 = TheCall.rejections
          /\ TheCall.slept >= HintWait(TheCall.error.details)
                                + TheCall.retries * BackoffStepMs
    /\ TheCall.state # "sleeping" => TheCall.sleeps = TheCall.rejections
    /\ TheCall.outcome.kind = "exhausted" =>
          /\ TheCall.error.status = RateLimitStatus
          /\ TheCall.sleeps = TheCall.maxRetries + 1

C26_Witness ==
    /\ TheCall.outcome.kind = "exhausted"
    /\ TheCall.maxRetries = MaxRetriesBound
    /\ TheCall.rejections = MaxRetriesBound + 1
    /\ TheCall.sleeps = MaxRetriesBound + 1
    /\ TheCall.slept >= DefaultWaitMs + MaxRetriesBound * BackoffStepMs

\* The chunks of the text segmented, as they stand before the filter of line 179.
Unfiltered == allChunks(ClassifyAll(SplitParagraphs(segIn, 1), 1, FreshPatterns))

\* Whether a chunk is among the segments returned.
Kept(chunk) ==
    \E j \in 1..Len(segOut.chunks) :
        segOut.chunks[j] = TypeTag(chunk.type) \o <<NL>> \o chunk.content

\* C22: a segment is discarded exactly when its trimmed content is shorter
\* than 10 characters; one of 10 characters or more is kept.
C22_KeptIffAtLeastTen ==
    segOut.done =>
        \A k \in 1..Len(Unfiltered) :
            Kept(Unfiltered[k]) <=> Len(Trim(Unfiltered[k].content)) >= MinContentLength

\* What line 179 does: a segment is kept exactly when its trimmed content is
\* longer than 10 characters.
C22_KeptIffLongerThanTen ==
    segOut.done =>
        \A k \in 1..Len(Unfiltered) :
            Kept(Unfiltered[k]) <=> Len(Trim(Unfiltered[k].content)) > MinContentLength

--------------------------------------------------------------------------
\* The grouping of connections: texts of connection paragraphs only.

MaxConnections == 3

\* Connections told with from and to: two whose sources and targets differ
\* and hold an underscore, one more between the first one's components, one
\* from a component named conn to one named 1, one with no source nor
\* target, one with a label.
ConnectionParagraphs ==
    {Chars("flow from x_y, to z"), Chars("flow from x, to y_z"),
     Chars("data flow from x_y, to z"), Chars("flow from conn, to 1"),
     Chars("web -> db connects"), Chars("Flow: from A to B")}

ConnectionTexts ==
    {JoinParagraphs(ps) :
        ps \in UNION {[1..n -> ConnectionParagraphs] : n \in 1..MaxConnections}}

InitGroup ==
    /\ segIn \in ConnectionTexts
    /\ segOut = NotSegmented
    /\ RecoverIdle
    /\ RankIdle
    /\ DashIdle
    /\ call = [r \in Reqs |-> IdleCall]
    /\ PipelineIdle

SpecGroup == InitGroup /\ [][NextSegment]_vars

\* Lines 103-141: the connection candidates of the text segmented.
Candidates == OfType(ClassifyAll(SplitParagraphs(segIn, 1), 1, FreshPatterns), "connection")

\* Lines 144-163: the groups made of them.
Groups == groupedConnections(Candidates, 1, <<>>)

\* In how many groups, at how many places, a content stands.
Placed(content) ==
    Cardinality({<<g, k>> \in (1..Len(Groups)) \X (1..MaxConnections + 1) :
                    k <= Len(Groups[g].conns) /\ Groups[g].conns[k].content = content})

\* Two contents stand in one group.
Together(a, b) ==
    \E g \in 1..Len(Groups) :
        /\ \E k \in 1..Len(Groups[g].conns) : Groups[g].conns[k].content = a
        /\ \E k \in 1..Len(Groups[g].conns) : Groups[g].conns[k].content = b

\* A source and a target were extracted from both contents, and are the same.
SamePair(a, b) ==
    /\ sourceMatch(a).matched /\ targetMatch(a).matched
    /\ sourceMatch(b).matched /\ targetMatch(b).matched
    /\ sourceMatch(a).group = sourceMatch(b).group
    /\ targetMatch(a).group = targetMatch(b).group

\* C23: two connection candidates (of different contents) are in the same
\* group if and only if a source and a target were extracted from both and
\* the two pairs are equal.
C23_GroupedIffSamePair ==
    segOut.done =>
        \A i, j \in 1..Len(Candidates) :
            Candidates[i].content # Candidates[j].content =>
                (Together(Candidates[i].content, Candidates[j].content)
                    <=> SamePair(Candidates[i].content, Candidates[j].content))

\* C28: grouping loses no connection: the content of every candidate stands
\* in a group, as often as the candidates hold it.
C28_NoConnectionLost ==
    segOut.done =>
        \A i \in 1..Len(Candidates) :
            Placed(Candidates[i].content)
                = Cardinality({j \in 1..Len(Candidates) :
                                  Candidates[j].content = Candidates[i].content})

\* The place of a segment's type in the output: components, then metadata,
\* then connection groups.
TypeRank(segment) ==
    IF HasTag(segment, "component") THEN 1
    ELSE IF HasTag(segment, "metadata") THEN 2
    ELSE IF HasTag(segment, "connection_group") THEN 3
    ELSE 0

\* The content of a segment of a type: what follows the tag and its newline.
ContentOf(segment, type) == Sub(segment, Len(TypeTag(type)) + 2, Len(segment))

\* The contents of the segments of a type, in the order of the output.
ContentsOfType(segments, type) ==
    [k \in 1..CountTagged(segments, type) |->
        ContentOf(SelectSeq(segments, LAMBDA x : HasTag(x, type))[k], type)]

RECURSIVE InOrderWithin(_, _, _, _)
\* Whether the members of a from the i-th on stand in b from the j-th on, in
\* the same order.
InOrderWithin(a, i, b, j) ==
    IF i > Len(a) THEN TRUE
    ELSE The({IF at = 0 THEN FALSE ELSE InOrderWithin(a, i + 1, b, at + 1)
              : at \in {Least({k \in j..Len(b) : b[k] = a[i]}, 0)}})

\* The paragraphs of the text segmented, trimmed.
TrimmedParagraphs ==
    [k \in 1..Len(SplitParagraphs(segIn, 1)) |-> Trim(SplitParagraphs(segIn, 1)[k])]

\* C24: the segments returned are the Component segments, then the Metadata
\* segments, then the ConnectionGroup segments; the Component segments, and
\* the Metadata segments, stand in the order of their paragraphs in the text.
C24_ComponentsMetadataGroupsInOrder ==
    segOut.done =>
        /\ \A i \in 1..Len(segOut.chunks) : TypeRank(segOut.chunks[i]) # 0
        /\ \A i, j \in 1..Len(segOut.chunks) :
              i < j => TypeRank(segOut.chunks[i]) <= TypeRank(segOut.chunks[j])
        /\ InOrderWithin(ContentsOfType(segOut.chunks, "component"), 1,
                         TrimmedParagraphs, 1)
        /\ InOrderWithin(ContentsOfType(segOut.chunks, "metadata"), 1,
                         TrimmedParagraphs, 1)

\* A connection, a label and a component in the text, returned as the
\* component, the label and the connection.
C24_Witness ==
    /\ segOut.done
    /\ segIn = JoinParagraphs(<<Chars("web -> db connects"), Chars("Label: blue box"),
                                Chars("Component: A handles logins")>>)
    /\ Len(segOut.chunks) = 3
    /\ ContentsOfType(segOut.chunks, "component") = <<Chars("Component: A handles logins")>>
    /\ TypeRank(segOut.chunks[1]) = 1
    /\ TypeRank(segOut.chunks[2]) = 2
    /\ TypeRank(segOut.chunks[3]) = 3

\* The delays slept by a run that has made all the calls of its chunk loop:
\* one between each two of them.
ChunkLoopDelays(r) == run[r].chunks - 1

\* C25: in the chunk loop and in the batch loop a delay of at least 1 s and
\* less than 2 s is slept between each two consecutive calls of the loop and
\* none after the loop's last call: at the loop's call of index i (from 0)
\* i delays of the loop have been slept, and a loop over k items has slept
\* k - 1 delays when it is over.
C25_DelayBetweenCallsOnly ==
    \A r \in Reqs :
        /\ run[r].pc \in {"chunk_delay", "batch_delay"} =>
              run[r].delay >= 1000 /\ run[r].delay < 2000
        /\ run[r].pc = "chunk_call" => run[r].delays = run[r].i
        /\ run[r].pc = "chunk_delay" =>
              run[r].delays = run[r].i + 1 /\ run[r].i < run[r].chunks - 1
        /\ run[r].pc = "batch_call" => run[r].delays = ChunkLoopDelays(r) + run[r].i
        /\ run[r].pc = "batch_delay" =>
              /\ run[r].delays = ChunkLoopDelays(r) + run[r].i + 1
              /\ run[r].i < Len(run[r].batches) - 1
        /\ (run[r].pc = "final_call" \/ (run[r].pc = "done" /\ run[r].res.status = 200)) =>
              run[r].delays = ChunkLoopDelays(r)
                              + (IF run[r].chunks >= 2 THEN BatchCount(run[r].chunks) - 1
                                 ELSE 0)

\* A run of batchSize + 1 chunks over: ten delays in the chunk loop, one
\* between its two batches.
C25_Witness ==
    /\ run[1].pc = "done"
    /\ run[1].res.status = 200
    /\ run[1].chunks = batchSize + 1
    /\ Len(run[1].batches) = 2
    /\ run[1].delays = batchSize + 1

--------------------------------------------------------------------------
\* The batches of a run whose partial reports differ from one another.

MaxBatched == 21

\* A partial report that tells its place: {"summary":"k"}.
NumberedReport(k) ==
    JSONStringify(JObj(<<JPair(<<"summary">>, JStr(<<ToString(k)>>))>>))

\* The run at line 363 for its last chunk, the chunks before it answered
\* with reports that differ.
AtLastChunkNumbered(n) ==
    [AtLastChunk(n) EXCEPT !.chunkResults = [k \in 1..(n - 1) |-> NumberedReport(k)]]

InitBatch ==
    /\ \E n \in 2..MaxBatched :
          run = [r \in Reqs |-> IF r = 1 THEN AtLastChunkNumbered(n) ELSE IdleRun]
    /\ call = [r \in Reqs |-> IF r = 1 THEN StartCall(DefaultMaxRetries) ELSE IdleCall]
    /\ finalResult = JNull
    /\ troubled = 0
    /\ PureIdle

SpecBatch == InitBatch /\ [][NextReduce]_vars

RECURSIVE Flattened(_, _)
\* The batches from the b-th on, one after the other.
Flattened(batches, b) ==
    IF b > Len(batches) THEN <<>> ELSE batches[b] \o Flattened(batches, b + 1)

\* The batches of a run have been built.
BatchesBuilt(r) ==
    /\ run[r].chunks >= 2
    /\ \/ run[r].pc \in {"batch_call", "batch_delay", "final_call"}
       \/ run[r].pc = "done" /\ run[r].res.status = 200

\* C27: the batches are an ordered partition of the partial reports: one
\* after the other they give the reports as they were, none is empty, none
\* holds more than batchSize, and all but the last hold batchSize.
C27_BatchesPartitionReports ==
    \A r \in Reqs :
        BatchesBuilt(r) =>
            /\ Len(run[r].chunkResults) = run[r].chunks
            /\ Flattened(run[r].batches, 1) = run[r].chunkResults
            /\ \A b \in 1..Len(run[r].batches) :
                  /\ Len(run[r].batches[b]) >= 1
                  /\ Len(run[r].batches[b]) <= batchSize
                  /\ b < Len(run[r].batches) => Len(run[r].batches[b]) = batchSize

\* Twenty-one reports that differ, in three batches, the last of one report.
C27_Witness ==
    /\ BatchesBuilt(1)
    /\ run[1].pc = "done"
    /\ run[1].chunks = 2 * batchSize + 1
    /\ Len(run[1].batches) = 3
    /\ run[1].batches[2][1] = NumberedReport(batchSize + 1)
    /\ Len(run[1].batches[3]) = 1

--------------------------------------------------------------------------
\* Two analyze-security requests served at once: the steps of the two
\* handlers interleave at their awaits (remote calls, retry sleeps, delays).

MaxConcurrentChunks == 2

InitConcurrent ==
    /\ run \in [Reqs -> {StartedRun(n) : n \in 1..MaxConcurrentChunks}]
    /\ call = [r \in Reqs |-> IdleCall]
    /\ finalResult = JNull
    /\ troubled = 0
    /\ PureIdle

\* What the remote service answers a request's calls with: the report asked
\* for, and at the final call (or the only chunk's call) one of two reports
\* that differ.
ReportsFor(r) ==
    IF run[r].pc = "final_call" \/ run[r].chunks = 1
    THEN {NumberedReport(1), NumberedReport(2)}
    ELSE {GoodText}

RemoteReports(r) ==
    /\ \E content \in ReportsFor(r) : AxiosResponds(r, content)
    /\ UNCHANGED <<pipelineVars, pureVars>>

NextConcurrent ==
    \E r \in Reqs :
        \/ EnterLoop(r)
        \/ RemoteReports(r)
        \/ RemoteRateLimits(r)
        \/ RetrySleepDone(r)
        \/ ChunkReturns(r)
        \/ ChunkDelayDone(r)
        \/ BatchReturns(r)
        \/ FinalReturns(r)
        \/ CallFails(r)

SpecConcurrent == InitConcurrent /\ [][NextConcurrent]_vars

\* The report replied for a final response: the record recovered from the
\* response's content, with its timestamp, serialized.
OwnReport(content) ==
    JSONStringify(WithTimestamp(cleanAndFixJSON(content).value))

\* C29: two requests interleaved at their awaits do not interfere: the step
\* that handles a request's final response replies with the report made from
\* that response, whatever the other request left in finalResult, and a reply
\* sent is changed by no step of either request.
C29_ConcurrentRequestsDoNotInterfere ==
    [][\A r \in Reqs :
          /\ (/\ run[r].pc = "final_call" /\ call[r].state = "returned"
              /\ run'[r].pc = "done") =>
                 /\ run'[r].res.sent
                 /\ run'[r].res.status = 200
                 /\ run'[r].res.error = <<>>
                 /\ run'[r].res.result = OwnReport(call[r].outcome.content)
          /\ run[r].res.sent => run'[r].res = run[r].res]_vars

\* Both requests answered through the final call, with reports that differ,
\* the first request's being the one finalResult holds.
C29_Witness ==
    /\ \A r \in Reqs : run[r].pc = "done" /\ run[r].res.status = 200 /\ run[r].chunks = 2
    /\ run[1].res.result # run[2].res.result
    /\ JSONStringify(finalResult) = run[1].res.result
    /\ run[2].res.result = OwnReport(NumberedReport(2))

--------------------------------------------------------------------------
\* The Dashboard (dashboard.tsx): the user's clicks and the continuations
\* of handleStartAnalysis, which run when their awaits settle.

MaxFiles == 1

\* Whether an analysis is under way: the stage is neither idle, nor
\* completed, nor error (lines 185-187).
UnderWay(stage) == stage \notin {"idle", "completed", "error"}

\* Whether some handleStartAnalysis has not run to its end.
InFlight == \E f \in Flights : dash.flight[f] # "none"

\* Lines 53-55, from the uploader of the upload tab.
FilesSelected ==
    /\ dash.activeTab = "upload"
    /\ \E n \in 1..MaxFiles : n # dash.files /\ dash' = [dash EXCEPT !.files = n]
    /\ UNCHANGED <<call, pipelineVars, recoverVars, segmentVars, rankVars>>

\* Lines 207-225: a tab that is not disabled is chosen.
TabChosen ==
    /\ \E tab \in {"upload", "status", "report"} :
          /\ tab # dash.activeTab
          /\ tab = "upload" => ~UnderWay(dash.currentStage)
          /\ tab = "status" => dash.currentStage # "idle"
          /\ tab = "report" => dash.securityReport.has
          /\ dash' = [dash EXCEPT !.activeTab = tab]
    /\ UNCHANGED <<call, pipelineVars, recoverVars, segmentVars, rankVars>>

\* Lines 66-84: Start Security Analysis is clicked (the button of lines
\* 199-203, shown when idle, or that of lines 270-276, in the upload tab),
\* up to the await of the files' text.
StartAnalysis(f) ==
    /\ dash.files > 0
    /\ dash.currentStage = "idle" \/ dash.activeTab = "upload"
    /\ dash.flight[f] = "none"
    /\ dash' = [dash EXCEPT !.securityReport = Absent, !.rawReportText = Absent,
                            !.error = Absent, !.progress = 0,
                            !.processedChunks = 0, !.totalChunks = 0,
                            !.currentStage = "ingesting", !.activeTab = "status",
                            !.flight[f] = "extracting", !.cancelled = FALSE]
    /\ UNCHANGED <<call, pipelineVars, recoverVars, segmentVars, rankVars>>

\* Lines 84-97: the files' text is there; the request is sent.
Extracted(f) ==
    /\ dash.flight[f] = "extracting"
    /\ dash' = [dash EXCEPT !.currentStage = "analyzing", !.flight[f] = "fetching"]
    /\ UNCHANGED <<call, pipelineVars, recoverVars, segmentVars, rankVars>>

\* Lines 88-104: fetch resolves with a response, ok or not; its body is
\* awaited.
FetchResolves(f) ==
    /\ dash.flight[f] = "fetching"
    /\ \E ok \in BOOLEAN :
          dash' = [dash EXCEPT !.flight[f] = IF ok THEN "ok_body" ELSE "error_body"]
    /\ UNCHANGED <<call, pipelineVars, recoverVars, segmentVars, rankVars>>

\* Lines 123-126: the catch.
Caught(d, f, message) ==
    [d EXCEPT !.error = Present(message), !.currentStage = "error", !.flight[f] = "none"]

\* Lines 88 and 123-126: fetch rejects (the server cannot be reached).
FetchRejects(f) ==
    /\ dash.flight[f] = "fetching"
    /\ dash' = Caught(dash, f, <<"Failed to fetch">>)
    /\ UNCHANGED <<call, pipelineVars, recoverVars, segmentVars, rankVars>>

\* Lines 99-102 and 123-126: the body of a response that is not ok.
ErrorBodyRead(f) ==
    /\ dash.flight[f] = "error_body"
    /\ \E error \in {<<"No chunks could be processed">>, <<>>} :
          dash' = Caught(dash, f, IF error # <<>> THEN error
                                  ELSE <<"Error analyzing security">>)
    /\ UNCHANGED <<call, pipelineVars, recoverVars, segmentVars, rankVars>>

\* Lines 29-36.
safeJsonParse(jsonString) ==
    The({[success |-> parsed.ok, data |-> parsed.v] : parsed \in {JSONParse(jsonString)}})

\* Lines 104-122: the body of an ok response: the report is shown.
BodyRead(f) ==
    /\ dash.flight[f] = "ok_body"
    /\ \E result \in {GoodText, GarbageText} :
       \E parseResult \in {safeJsonParse(result)} :
          dash' = [dash EXCEPT
                      !.processedChunks = 1, !.totalChunks = 1, !.progress = 100,
                      !.securityReport = IF parseResult.success
                                         THEN Present(parseResult.data) ELSE Absent,
                      !.rawReportText = IF parseResult.success
                                        THEN Absent ELSE Present(result),
                      !.currentStage = "completed", !.activeTab = "report",
                      !.flight[f] = "none"]
    /\ UNCHANGED <<call, pipelineVars, recoverVars, segmentVars, rankVars>>

\* Lines 139-147: Cancel (shown while an analysis is under way) or New
\* Analysis (shown otherwise) is clicked.  No request is aborted.
handleReset ==
    /\ dash' = [dash EXCEPT !.files = 0, !.currentStage = "idle", !.progress = 0,
                            !.error = Absent, !.securityReport = Absent,
                            !.rawReportText = Absent, !.activeTab = "upload",
                            !.cancelled = IF UnderWay(dash.currentStage) /\ InFlight
                                          THEN TRUE ELSE @]
    /\ dash' # dash
    /\ UNCHANGED <<call, pipelineVars, recoverVars, segmentVars, rankVars>>

InitDashboard ==
    /\ DashIdle
    /\ RecoverIdle
    /\ SegmentIdle
    /\ RankIdle
    /\ call = [r \in Reqs |-> IdleCall]
    /\ PipelineIdle

NextDashboard ==
    \/ FilesSelected
    \/ TabChosen
    \/ handleReset
    \/ \E f \in Flights :
          \/ StartAnalysis(f)
          \/ Extracted(f)
          \/ FetchResolves(f)
          \/ FetchRejects(f)
          \/ ErrorBodyRead(f)
          \/ BodyRead(f)

SpecDashboard == InitDashboard /\ [][NextDashboard]_vars

\* C30: once Cancel is pressed while an analysis is in flight, and until a
\* new analysis is started, the stage is idle and no report is shown.
C30_CancelledStaysIdle ==
    dash.cancelled =>
        /\ dash.currentStage = "idle"
        /\ ~dash.securityReport.has
        /\ ~dash.rawReportText.has

=============================================================================
